---- MODULE Spec2Model ----
(***************************************************************************)
(* State-machine model of the CH375 USB host core of the HID proxy         *)
(* firmware: the chip command layer (drivers/ch37x/src/ch375.c), the host  *)
(* transfer engine and enumeration (drivers/ch37x/src/ch375_host.c) and    *)
(* the output sink (src/usb_hid_proxy.c), with the application layer on   *)
(* top of them: the main loop (src/main.c), the HID report buffer and the  *)
(* mouse and keyboard decoders (drivers/hid/src) and the recoil pattern    *)
(* expansion (src/input_patterns.c).                                       *)
(*                                                                         *)
(* The model is split into sub-machines that share one set of variables;   *)
(* each specification below runs one group of operations:                  *)
(*   SpecXfer  control transfer, bulk/interrupt transfer, clear stall,     *)
(*             report read on the interrupt endpoint                       *)
(*   SpecChip  chip commands of two threads on one context (mutex, link)   *)
(*   SpecSink  output sink: send, ready callbacks, status callback         *)
(*   SpecOpen  device open (enumeration) and close                         *)
(*   SpecMain  the main loop: connect, enumerate, forward, tear down       *)
(*   SpecHid   mouse report buffer: open, fetch, Report-ID detection       *)
(*   SpecKbd   keyboard report editing: set key, set modifier              *)
(*   SpecRecoil recoil context: presets, coefficient, sensitivity          *)
(*   SpecItem  HID item walker over a report descriptor                    *)
(*   SpecWait  ch375_waitInt: status polling against a time budget         *)
(*   SpecBaud  ch375_setBaudrate: divisor table and link writes            *)
(*   SpecOut   normalized 6-byte mouse report                              *)
(*   SpecWalk  configuration-descriptor walk over raw bytes                *)
(*   SpecSeq   recoil sequencer: load, restart, next tick against a clock  *)
(***************************************************************************)
EXTENDS Integers, Sequences, FiniteSets, TLC

(***************************************************************************)
(* Bounds of the exploration (not program constants).                      *)
(***************************************************************************)
\* NAK answers explored per control transfer (the code's loop is unbounded)
MaxNaks == 2
\* largest caller-supplied bulk timeout explored
MaxTimeout == 2
\* IN packets accepted per control transfer explored
MaxPkts == 4
\* backward jumps explored per chip operation (status polls, payload bytes)
MaxLoop == 2
\* descriptors in a configuration descriptor explored
MaxDescs == 3
\* nesting depth of the context mutex explored
MaxHold == 2
\* bytes of an input report explored (report_len of the mouse)
ReportLen == 2
\* successful fetches explored per opened mouse
MaxFetch == 3
\* keys held in a report half while its modifier byte is edited or set
MaxKeysWithMod == 1
\* coefficient steps explored above the default
MaxCoeffSteps == 1
\* sensitivity steps explored on either side of the default
MaxSensSteps == 1
\* bytes of a HID report descriptor explored by the item walker
MaxItemLen == 5
\* the timeout budgets of wait_int explored, in milliseconds
MaxBudget == 2
\* polls of wait_int within one millisecond
MaxStill == 1
\* length of the configuration-descriptor buffers walked byte by byte
MaxWalkLen == 4
\* latest clock reading at which the sequencer is restarted or loaded
MaxEarly == 9
\* compensation ticks explored on one buffered mouse report
MaxComp == 2

Min(a, b) == IF a < b THEN a ELSE b

\* conversion of an int expression to uint8_t (C implicit conversion)
U8(x) == x % 256

RECURSIVE SumSeq(_)
SumSeq(s) == IF s = <<>> THEN 0 ELSE s[1] + SumSeq(Tail(s))

VARIABLES
    udev,   \* struct USB_Device_t of the channel
    heap,   \* the configuration-descriptor allocation: state and free count
    ct,     \* the running control transfer (locals of ch375_hostControlTransfer)
    bk,     \* the running bulk transfer (locals of ch375_hostBulkTransfer)
    cs,     \* the running clear-stall call (locals of ch375_hostClearStall)
    mtx,    \* struct k_mutex lock of the chip context: owner and lock count
    th,     \* the threads calling chip operations: call stack, last return
    io,     \* what has happened on the link of the context (history)
    sink,   \* the output sink: usb_hid_proxy.c statics and the sending call
    enum,   \* the running open call (locals of ch375_hostUdevOpen)
    app,    \* the main loop: main.c statics and the position of main()
    hid,    \* struct USBHID_Device_t / struct HID_Mouse_t of one channel
    kbd,    \* the 8-byte report of struct HID_Keyboard_t
    rc,     \* struct RecoilComp_Context_t
    fn      \* one routine run on its own: its arguments and what it has done

vars == <<udev, heap, ct, bk, cs, mtx, th, io, sink, enum, app, hid, kbd, rc, fn>>

hostVars == <<udev, heap, ct, bk, cs, enum>>

chipVars == <<mtx, th, io>>

\* the application layer above the host driver
appVars == <<app, hid, kbd, rc, fn>>

\* the host driver, the chip layer and the sink
driverVars == <<udev, heap, ct, bk, cs, mtx, th, io, sink, enum>>

nonHostVars == <<mtx, th, io, sink, enum, appVars>>

nonChipVars == <<udev, heap, ct, bk, cs, sink, enum, appVars>>

(***************************************************************************)
(* struct USB_Device_t, struct USB_Interface_t, struct USB_Endpoint_t      *)
(***************************************************************************)
ZeroEndpoint ==
    [ep_addr |-> 0, attributes |-> 0, max_packet |-> 0, interval |-> 0,
     data_toggle |-> FALSE]

ZeroInterface ==
    [interface_number |-> 0, interface_class |-> 0, endpoint_count |-> 0,
     endpoints |-> [j \in 0..3 |-> ZeroEndpoint]]

\* the struct after memset(pUdev, 0x00, sizeof(struct USB_Device_t))
ZeroDev ==
    [ctx |-> "NULL", vendor_id |-> 0, product_id |-> 0, speed |-> 0,
     ep0_max_packet |-> 0, config_value |-> 0, raw_dev_desc |-> "zero",
     raw_conf_desc |-> "NULL", raw_conf_desc_len |-> 0,
     interface_count |-> 0,
     interfaces |-> [i \in 0..3 |-> ZeroInterface],
     connected |-> FALSE, configured |-> FALSE]

HeapInit == [state |-> "none", frees |-> 0, wildFrees |-> 0]

\* no open call is running
EnumIdle ==
    [pc |-> "idle", ret |-> "none", conf_total_len |-> 0,
     \* history, for the properties:
     stepFailed |-> FALSE,  \* a step of the enumeration sequence has failed
     allocated |-> FALSE,   \* k_malloc has handed out the descriptor buffer
     log |-> <<>>,          \* the steps this open has issued, in order
     okLog |-> <<>>,        \* whether each step that has finished succeeded
     lens |-> <<>>,         \* wLength of each control transfer issued
     ep0First |-> 0]        \* ep0_max_packet when the first transfer started

\* device speed codes
USB_SPEED_SPEED_LS == 1

USB_SPEED_SPEED_FS == 0

\* fixed values of the enumeration
USB_DEFAULT_EP0_MAX_PACKSIZE == 8

\* an interrupt endpoint as the descriptor walk stores it
XferEndpoint(addr) ==
    [ep_addr |-> addr, attributes |-> 3, max_packet |-> 4, interval |-> 10,
     data_toggle |-> FALSE]

\* EP0 packet sizes a device descriptor can declare (bMaxPacketSize0)
Ep0Sizes == {0, 8, 64}

\* the endpoints of the output sink: interface 0 mouse, interface 1 keyboard
Ifaces == {0, 1}

\* the statics as the program image holds them: K_SEM_DEFINE(.., 1, 1),
\* isUsbConfigured = false, both device pointers NULL
SinkStart ==
    [isUsbConfigured |-> FALSE,
     devs |-> FALSE,                      \* pHidDevMouse, pHidDevKbd are set
     sem |-> [i \in Ifaces |-> 1],        \* mouseSem, kbdSem
     inflight |-> [i \in Ifaces |-> FALSE], \* a write waits for its ready callback
     pc |-> "idle", iface |-> 0, ret |-> "none",
     \* history, for the properties:
     used |-> FALSE,        \* some send has taken a semaphore
     wrote |-> FALSE,       \* the running send has called hid_int_ep_write
     cfgAtEntry |-> FALSE,  \* isUsbConfigured when the running send was called
     cfgAtTake |-> FALSE,   \* isUsbConfigured when it was granted the semaphore
     overlap |-> FALSE]     \* a write was issued with one in flight on its endpoint

\* the channels of the main loop: 0 the mouse chip, 1 the keyboard chip
Channels == {0, 1}

\* main.c after both initHostChipDevice calls: nothing connected or open,
\* gRecoilCompCtx NULL, gRcEnabled and gRcActive false, main() about to wait
AppStart ==
    [pc |-> "wait", i |-> 0,
     isConnected |-> [c \in Channels |-> FALSE],
     opened |-> [c \in Channels |-> FALSE],   \* usbDev / hidDev of the channel are open
     rcOpen |-> FALSE,                        \* gRecoilCompCtx is not NULL
     sinkUp |-> FALSE,                        \* usbhid_proxyInit has run, no cleanup since
     gRcEnabled |-> FALSE, gRcActive |-> FALSE,
     lmb |-> FALSE,          \* left button bit of the mouse's current report
     x |-> 0,                \* X axis field of the mouse's current report
     lastKeyboardReport |-> <<FALSE, FALSE>>,
                             \* handleKeyboardInput's static copy of the last
                             \* report: its PAGEUP and PAGEDOWN keys
     \* history, for the properties:
     discPending |-> FALSE,  \* a fetch reported NO_DEV, no full enumeration since
     fwdAfterDisc |-> FALSE, \* a report went to the sink while discPending
     unsent |-> FALSE,       \* the last fetched mouse report has not gone to the sink
     dropped |-> FALSE,      \* a mouse fetch was issued while unsent
     devX |-> 0,             \* X the device reported in the current report
     ticks |-> 0,            \* compensation ticks added to it since the fetch
     sent |-> [x |-> 0, devX |-> 0, ticks |-> 0],
                             \* the same three when a report last went to the sink
     leaked |-> FALSE]       \* a buffer was dropped by a memset without k_free

\* the mouse decoder and its HID device before hidMouse_Open (all zero)
HidStart ==
    [hid_dev |-> FALSE,              \* the decoder is bound to a device
     open |-> FALSE,                 \* report_buffer # NULL
     buf |-> [i \in 1..(2 * ReportLen) |-> 0],   \* report_buffer
     last |-> 0,                     \* report_buffer_last_offset
     declared |-> FALSE,             \* has_report_id_declared
     has_wheel |-> FALSE,
     idOff |-> 0,                    \* report_id_offset
     btnOff |-> 0,                   \* button.report_buf_off
     orientOff |-> 0,                \* orientation.report_buf_off
     wheelOff |-> 0,                 \* wheel.report_buf_off
     \* history, for the properties:
     ret |-> "NONE",                 \* result of the latest fetch
     n |-> 0,                        \* successful fetches since the open
     kth |-> [i \in 1..ReportLen |-> 0],  \* the half written by the n-th
     preLast |-> 0,                  \* selector before the latest fetch
     preCur |-> [i \in 1..ReportLen |-> 0], \* current report before it
     firstOff |-> 0]                 \* report_id_offset after the 1st success

\* keyboard report layout
HID_KBD_REPORT_SIZE == 8
HID_KBD_MODIFIER_OFFSET == 0
HID_KBD_KEYS_OFFSET == 2
HID_KBD_MAX_KEYS == 6

\* the keyboard decoder and its report buffer before hidKeyboard_Open
KbdStart ==
    [open |-> FALSE,                 \* report_buffer # NULL
     buf |-> [i \in 1..(2 * HID_KBD_REPORT_SIZE) |-> 0],  \* report_buffer
     last |-> 0,                     \* report_buffer_last_offset
     \* history, for the properties:
     held |-> [l \in BOOLEAN |-> <<>>], \* keys held via each accessor, in press order
     ignored |-> FALSE,              \* the latest press found no slot
     op |-> [kind |-> "none", modNum |-> 0, value |-> 0, isLast |-> FALSE]]
                                     \* the latest call and its arguments

\* input_patterns.h, coefficient and sensitivity counted in tenths
USB_REPORT_INTERVAL == 8
RECOIL_COMP_DEFAULT_COEFF == 10
RECOIL_COMP_DEFAULT_SENS == 25
RECOIL_COMP_COEFF_MIN == 1
RECOIL_COMP_COEFF_MAX == 100
RECOIL_COMP_PRESET_COUNT == 3
RECOIL_COMP_SENS_MIN == 1
RECOIL_COMP_SENS_MAX == 1000
RECOIL_COMP_COEFF_STEP == 1
RECOIL_COMP_SENS_STEP == 1
\* the x and y offsets of the presets are counted in 1/RawScale
RawScale == 100000

\* the recoil context before recoilComp_open (gRecoilCompCtx = NULL)
RcStart ==
    [init |-> FALSE,         \* context allocated, RECOIL_COMP_STATE_INITIALIZED
     coeff |-> 0,            \* coefficient, in tenths
     sens |-> 0,             \* sensitivity, in tenths
     pCollect |-> -1,        \* index into sRecoilCollectArr, -1 for NULL
     presetActive |-> FALSE, \* RECOIL_COMP_STATE_PRESET_ACTIVE
     allocated |-> FALSE,    \* RECOIL_COMP_STATE_ARRAYS_ALLOCATED
     arrLen |-> 0,
     arrIndex |-> 0,
     lastTickMs |-> 0,       \* in milliseconds of k_uptime_get_32
     pX |-> <<>>,            \* <<>> for NULL
     pY |-> <<>>,
     pTs |-> <<>>,
     ret |-> "NONE"]         \* result of the latest call

HID_ITEM_TAG_LONG == 15

\* no routine is being run on its own
FnIdle == [kind |-> "idle"]

\* the application layer before main() has done anything
AppLayerIdle ==
    /\ app = AppStart
    /\ hid = HidStart
    /\ kbd = KbdStart
    /\ rc = RcStart
    /\ fn = FnIdle

(***************************************************************************)
(* Return codes (ch375_HostErrNo_e) and chip status bytes are kept by      *)
(* name: "SUCCESS", "ERROR", "PARAM_INVALID", "TIMEOUT", "DEV_DISCONNECT", *)
(* "STALL"; "IntSuccess", "IntDisconnect", "IntBufOver", "Nak", "Stall".   *)
(***************************************************************************)

\* what ch37x_sendToken can hand back: a failure of the call itself, or a
\* status byte
TokenOutcomes ==
    {"token_fail", "IntSuccess", "Nak", "Stall", "IntDisconnect", "IntBufOver"}

\* the mapping of a non-success status byte to a return code
StatusRet(status) ==
    IF status = "IntDisconnect" THEN "DEV_DISCONNECT"
    ELSE IF status = "Stall" THEN "STALL"
    ELSE "ERROR"

(***************************************************************************)
(* ch375_readBlockData: the number of bytes stored into the buffer.  The   *)
(* chip announces dataLen bytes and hands over `delivered` of them (a link *)
(* read that times out ends the packet); at most len bytes are stored.     *)
(***************************************************************************)
ReadBlockLen(len, dataLen, delivered) == Min(Min(dataLen, len), delivered)

(***************************************************************************)
(* Control transfer: ch375_hostControlTransfer                             *)
(***************************************************************************)
CtIdle ==
    [pc |-> "idle", caller |-> "none", dirIn |-> FALSE, getDesc |-> FALSE,
     wLength |-> 0, total |-> 0, toggle |-> FALSE, naks |-> 0,
     timeout |-> 0,       \* the timeout argument; the function never reads it
     buf |-> <<>>, ret |-> "none", actual |-> -1,
     \* history of the data stage, for the properties:
     acc |-> <<>>,        \* payload lengths of the IN packets accepted
     accOdd |-> FALSE,    \* an odd number of data packets accepted so far
     tokSeen |-> FALSE,   \* a data-stage token has been issued
     tokTog |-> FALSE,    \* toggle carried by the last data-stage token
     tokAccOdd |-> FALSE, \* accOdd when that token was issued
     stat |-> "none"]     \* how the STATUS stage went, "none" if not reached

CtFinish(c, r) == [c EXCEPT !.pc = "done", !.ret = r]

CtSuccess(c) == [c EXCEPT !.pc = "done", !.ret = "SUCCESS", !.actual = c.total]

SetupOutcomes ==
    {"retry_fail", "write_fail"} \cup TokenOutcomes

\* parameter checks, retry policy, SETUP packet and SETUP token
CtrlSetupStage(u, in, caller, o) ==
    LET c0 == [CtIdle EXCEPT !.caller = caller, !.dirIn = in.dirIn,
                             !.getDesc = in.getDesc, !.wLength = in.wLength,
                             !.timeout = in.timeout]
    IN  IF u.ctx = "NULL" THEN CtFinish(c0, "PARAM_INVALID")
        ELSE IF ~in.hasBuf /\ in.wLength # 0 THEN CtFinish(c0, "PARAM_INVALID")
        ELSE IF o \in {"retry_fail", "write_fail", "token_fail"}
             THEN CtFinish(c0, "ERROR")
        ELSE IF o # "IntSuccess" THEN CtFinish(c0, StatusRet(o))
        ELSE [c0 EXCEPT !.toggle = TRUE,
                        !.pc = IF in.wLength > 0 THEN "data" ELSE "status"]

\* the length argument of ch37x_readBlockData, a uint8_t parameter
CtrlReadLenArg(remaining) == U8(remaining)

\* toggle and count update after a block was read in the IN data stage
CtrlInFlip(toggle, packetLen) == IF packetLen > 0 THEN ~toggle ELSE toggle

\* one iteration of the DATA-IN loop
CtrlInIter(c, ep0, tok, rd) ==
    LET t == [c EXCEPT !.tokSeen = TRUE, !.tokTog = c.toggle,
                       !.tokAccOdd = c.accOdd]
    IN  IF tok = "token_fail" THEN CtFinish(t, "ERROR")
        ELSE IF tok = "Nak" THEN [t EXCEPT !.naks = @ + 1]
        ELSE IF tok = "Stall" THEN CtFinish(t, "STALL")
        ELSE IF tok = "IntDisconnect" THEN CtFinish(t, "DEV_DISCONNECT")
        ELSE IF tok # "IntSuccess"
             THEN IF c.total > 0 THEN [t EXCEPT !.pc = "status"]
                  ELSE CtFinish(t, "ERROR")
        ELSE LET a == [t EXCEPT !.accOdd = ~c.accOdd]
             IN  IF rd.fail
                 THEN IF c.total > 0 THEN [a EXCEPT !.pc = "status"]
                      ELSE CtFinish(a, "ERROR")
                 ELSE LET len == CtrlReadLenArg(c.wLength - c.total)
                          packetLen == ReadBlockLen(len, rd.dataLen, rd.delivered)
                          total1 == c.total + packetLen
                      IN  [a EXCEPT
                            !.acc = Append(c.acc, rd.delivered),
                            !.buf = IF packetLen > 0
                                    THEN Append(c.buf, <<c.total, Len(c.acc) + 1, packetLen>>)
                                    ELSE c.buf,
                            !.total = total1,
                            !.toggle = CtrlInFlip(c.toggle, packetLen),
                            !.pc = IF packetLen < ep0 THEN "status"
                                   ELSE IF total1 < c.wLength THEN "data"
                                   ELSE "status"]

\* one iteration of the DATA-OUT loop
CtrlOutIter(c, ep0, o) ==
    LET toSend0 == U8(c.wLength - c.total)
        toSend == IF toSend0 > ep0 THEN ep0 ELSE toSend0
        t == [c EXCEPT !.tokSeen = TRUE, !.tokTog = c.toggle,
                       !.tokAccOdd = c.accOdd]
    IN  IF o = "write_fail" THEN CtFinish(c, "ERROR")
        ELSE IF o = "token_fail" THEN CtFinish(t, "ERROR")
        ELSE IF o # "IntSuccess" THEN CtFinish(t, StatusRet(o))
        ELSE LET total1 == c.total + toSend
             IN  [t EXCEPT !.accOdd = ~c.accOdd,
                           !.total = total1,
                           !.toggle = ~c.toggle,
                           !.pc = IF total1 < c.wLength THEN "data" ELSE "status"]

\* a STATUS stage that forgives a failure after an OUT data stage as well
CtrlStatusStageBothWays(c, o) ==
    IF o \in {"write_fail", "token_fail"}
    THEN IF c.total > 0 THEN CtSuccess(c) ELSE CtFinish(c, "ERROR")
    ELSE IF o # "IntSuccess"
    THEN IF c.total > 0 THEN CtSuccess(c) ELSE CtFinish(c, StatusRet(o))
    ELSE CtSuccess(c)

\* the STATUS stage and the final report of the actual length
CtrlStatusStage(c, o) ==
    IF c.dirIn
    THEN IF o \in {"write_fail", "token_fail"}
         THEN IF c.total > 0 THEN CtSuccess(c) ELSE CtFinish(c, "ERROR")
         ELSE IF o # "IntSuccess"
         THEN IF c.total > 0 THEN CtSuccess(c) ELSE CtFinish(c, StatusRet(o))
         ELSE CtSuccess(c)
    ELSE IF o = "token_fail" THEN CtFinish(c, "ERROR")
         ELSE IF o # "IntSuccess" THEN CtFinish(c, StatusRet(o))
         ELSE CtSuccess(c)

\* payload lengths a device on EP0 supplies for one IN packet: at most the
\* EP0 packet size (one byte for a device that declared 0) and never more
\* than the host still asks for
PacketLens(ep0, remaining) ==
    {d \in {0, 1, ep0 \div 2, ep0} : d <= remaining}

\* what the chip answers RD_USB_DATA with: a link failure, or a length byte
\* (possibly one more than it hands over) and the payload
ReadOutcomes(ep0, remaining) ==
    {[fail |-> TRUE, dataLen |-> 0, delivered |-> 0]} \cup
    {[fail |-> FALSE, dataLen |-> d + over, delivered |-> d] :
        d \in PacketLens(ep0, remaining), over \in {0, 1}}

\* the control requests the callers issue: descriptor reads of 8, 18 and
\* wTotalLength bytes, zero-length SET_ADDRESS / SET_CONFIGURATION /
\* CLEAR_FEATURE, class requests with an OUT data stage
CtrlInputs ==
    {[dirIn |-> TRUE, getDesc |-> TRUE, wLength |-> n, hasBuf |-> TRUE,
      timeout |-> t] : n \in {8, 18, 96, 256}, t \in {0, MaxTimeout}} \cup
    {[dirIn |-> FALSE, getDesc |-> FALSE, wLength |-> n, hasBuf |-> TRUE,
      timeout |-> MaxTimeout] : n \in {10, 256}} \cup
    {[dirIn |-> d, getDesc |-> FALSE, wLength |-> n, hasBuf |-> FALSE,
      timeout |-> MaxTimeout] : d \in BOOLEAN, n \in {0, 1}}

\* no call into the host driver is running
HostIdle ==
    ct.pc = "idle" /\ bk.pc = "idle" /\ cs.pc = "idle" /\ fn.kind # "read"

CtrlCall ==
    /\ HostIdle
    /\ \E in \in CtrlInputs, o \in SetupOutcomes :
          ct' = CtrlSetupStage(udev, in, "api", o)
    /\ UNCHANGED <<udev, heap, bk, cs, nonHostVars>>

CtrlDataIn ==
    /\ ct.pc = "data" /\ ct.dirIn
    /\ \E tok \in TokenOutcomes :
       \E rd \in ReadOutcomes(udev.ep0_max_packet, ct.wLength - ct.total) :
          /\ tok = "Nak" => ct.naks < MaxNaks
          /\ tok = "IntSuccess" => Len(ct.acc) < MaxPkts
          /\ ct' = CtrlInIter(ct, udev.ep0_max_packet, tok, rd)
    /\ UNCHANGED <<udev, heap, bk, cs, nonHostVars>>

CtrlDataOut ==
    /\ ct.pc = "data" /\ ~ct.dirIn
    /\ \E o \in {"write_fail"} \cup TokenOutcomes :
          ct' = CtrlOutIter(ct, udev.ep0_max_packet, o)
    /\ UNCHANGED <<udev, heap, bk, cs, nonHostVars>>

CtrlStatus ==
    /\ ct.pc = "status"
    /\ \E o \in (IF ct.dirIn THEN {"write_fail"} ELSE {}) \cup TokenOutcomes :
          ct' = [CtrlStatusStage(ct, o) EXCEPT !.stat = o]
    /\ UNCHANGED <<udev, heap, bk, cs, nonHostVars>>

\* the call returns to a caller outside the model
CtrlReturn ==
    /\ ct.pc = "done" /\ ct.caller = "api"
    /\ ct' = CtIdle
    /\ UNCHANGED <<udev, heap, bk, cs, nonHostVars>>

(***************************************************************************)
(* Endpoint lookup: get_endpoint.  The result is the slot <<i, j>> of the  *)
(* first entry with the address, in table order, or <<>> when there is     *)
(* none or the address is 0.                                               *)
(***************************************************************************)
EpSlots(u, epAddr) ==
    {s \in (0..3) \X (0..3) :
        /\ s[1] < u.interface_count
        /\ s[2] < u.interfaces[s[1]].endpoint_count
        /\ u.interfaces[s[1]].endpoints[s[2]].ep_addr = epAddr}

GetEndpoint(u, epAddr) ==
    IF epAddr = 0 \/ EpSlots(u, epAddr) = {} THEN <<>>
    ELSE CHOOSE s \in EpSlots(u, epAddr) :
            \A r \in EpSlots(u, epAddr) :
                s[1] < r[1] \/ (s[1] = r[1] /\ s[2] <= r[2])

EpAt(u, slot) == u.interfaces[slot[1]].endpoints[slot[2]]

SetToggle(u, slot, v) ==
    [u EXCEPT !.interfaces[slot[1]].endpoints[slot[2]].data_toggle = v]

\* EP_IN(x): bit 7 of the 8-bit endpoint address
EpIn(ep) == (ep \div 128) % 2 = 1

(***************************************************************************)
(* Bulk / interrupt transfer: ch375_hostBulkTransfer                       *)
(***************************************************************************)
BkIdle ==
    [pc |-> "idle", ep |-> 0, slot |-> <<>>, resiLen |-> 0, offset |-> 0,
     timeout |-> 0, nakCount |-> 0, ret |-> "none", actual |-> -1,
     \* history, for the properties:
     timeout0 |-> 0,     \* the caller's timeout argument
     toggle0 |-> FALSE,  \* the endpoint toggle when the call was made
     tokens |-> 0,       \* tokens issued
     sleeps |-> 0,       \* k_msleep(1) calls
     pkts |-> 0,         \* tokens answered IntSuccess
     onlyNak |-> TRUE,   \* every token so far was answered NAK
     lastTog |-> FALSE,  \* toggle carried by the last token
     flips |-> 0]        \* toggle flips made by this call

BkFinish(b, r) == [b EXCEPT !.pc = "done", !.ret = r]

\* parameter check, endpoint lookup and retry setting
BulkEntry(u, ep, len, timeout, hasBuf, retryOk) ==
    LET slot == GetEndpoint(u, ep)
        b0 == [BkIdle EXCEPT !.ep = ep, !.resiLen = len, !.timeout = timeout,
                             !.timeout0 = timeout]
    IN  IF ~hasBuf /\ len # 0 THEN BkFinish(b0, "PARAM_INVALID")
        ELSE IF slot = <<>> THEN BkFinish(b0, "PARAM_INVALID")
        ELSE IF ~retryOk THEN BkFinish(b0, "ERROR")
        ELSE LET b1 == [b0 EXCEPT !.slot = slot,
                                  !.toggle0 = EpAt(u, slot).data_toggle]
             IN  IF len > 0 THEN [b1 EXCEPT !.pc = "loop"]
                 ELSE [b1 EXCEPT !.pc = "done", !.ret = "SUCCESS", !.actual = 0]

\* the per-packet length: uint8_t len = resiLen > max_packet ? max_packet : resiLen
BulkPacketLen(resiLen, max_packet) ==
    U8(IF resiLen > max_packet THEN max_packet ELSE resiLen)

\* a NAK branch that retries without spending the timeout budget
BulkOnNakNoDecrement(b) ==
    IF b.timeout = 0
    THEN [b EXCEPT !.nakCount = @ + 1, !.pc = "done", !.ret = "TIMEOUT",
                   !.actual = b.offset]
    ELSE [b EXCEPT !.nakCount = @ + 1, !.sleeps = @ + 1]

\* the NAK branch: Timeout with the partial count when the budget is used
\* up, else one unit of the budget and a 1 ms sleep
BulkOnNak(b) ==
    IF b.timeout = 0
    THEN [b EXCEPT !.nakCount = @ + 1, !.pc = "done", !.ret = "TIMEOUT",
                   !.actual = b.offset]
    ELSE [b EXCEPT !.nakCount = @ + 1, !.timeout = @ - 1, !.sleeps = @ + 1]

\* a packet went through: advance offset and residue
BulkOnSuccess(b, actualLen) ==
    LET resi1 == b.resiLen - actualLen
        b1 == [b EXCEPT !.offset = @ + actualLen, !.resiLen = resi1,
                        !.pkts = @ + 1, !.flips = @ + 1]
    IN  IF resi1 > 0 THEN b1
        ELSE [b1 EXCEPT !.pc = "done", !.ret = "SUCCESS",
                        !.actual = b.offset + actualLen]

\* the endpoint toggle after a token was answered with `status`
BulkToggleAfter(toggle, status) ==
    IF status = "IntSuccess" THEN ~toggle ELSE toggle

\* one iteration of the transfer loop: the new locals.  o is "write_fail"
\* (OUT only) or a token outcome, rd the answer to RD_USB_DATA (IN only)
BulkIter(b, e, o, rd) ==
    LET len == BulkPacketLen(b.resiLen, e.max_packet)
        t == [b EXCEPT !.tokens = @ + 1, !.lastTog = e.data_toggle,
                       !.onlyNak = @ /\ o = "Nak"]
    IN  IF o = "write_fail" THEN BkFinish(b, "ERROR")
        ELSE IF o = "token_fail" THEN BkFinish(t, "ERROR")
        ELSE IF o = "IntSuccess"
             THEN IF EpIn(b.ep)
                  THEN IF rd.fail THEN BkFinish(t, "ERROR")
                       ELSE BulkOnSuccess(t, ReadBlockLen(len, rd.dataLen, rd.delivered))
                  ELSE BulkOnSuccess(t, len)
        ELSE IF o = "Nak" THEN BulkOnNak(t)
        ELSE BkFinish(t, StatusRet(o))

\* whether that iteration reaches the toggle flip of the success branch
BulkFlips(b, o, rd) ==
    o = "IntSuccess" /\ ~(EpIn(b.ep) /\ rd.fail)

BulkLens == {0, 4, 6}

BulkEps == {1, 129, 130, 131}

BulkCall ==
    /\ HostIdle
    /\ \E ep \in BulkEps, len \in BulkLens, timeout \in 0..MaxTimeout,
          hasBuf \in BOOLEAN, retryOk \in BOOLEAN :
          bk' = BulkEntry(udev, ep, len, timeout, hasBuf, retryOk)
    /\ UNCHANGED <<udev, heap, ct, cs, nonHostVars>>

BulkLoop ==
    /\ bk.pc = "loop"
    /\ LET e == EpAt(udev, bk.slot)
       IN  \E o \in (IF EpIn(bk.ep) THEN {} ELSE {"write_fail"}) \cup TokenOutcomes :
           \E rd \in ReadOutcomes(e.max_packet, e.max_packet) :
              /\ o = "IntSuccess" => bk.pkts < MaxPkts
              /\ bk' = BulkIter(bk, e, o, rd)
              /\ udev' = IF BulkFlips(bk, o, rd)
                         THEN SetToggle(udev, bk.slot, BulkToggleAfter(e.data_toggle, o))
                         ELSE udev
    /\ UNCHANGED <<heap, ct, cs, nonHostVars>>

BulkReturn ==
    /\ bk.pc = "done"
    /\ bk' = BkIdle
    /\ UNCHANGED <<udev, heap, ct, cs, nonHostVars>>

(***************************************************************************)
(* Clear stall: ch375_hostClearStall                                       *)
(***************************************************************************)
CsIdle ==
    [pc |-> "idle", ep |-> 0, slot |-> <<>>, ret |-> "none",
     toggleBefore |-> FALSE]

\* the CLEAR_FEATURE(ENDPOINT_HALT) request: OUT, no data stage, no buffer
ClearFeatureReq ==
    [dirIn |-> FALSE, getDesc |-> FALSE, wLength |-> 0, hasBuf |-> FALSE,
     timeout |-> MaxTimeout]

\* a clear stall that leaves the endpoint toggle as it was
ClearStallKeepToggle(u, slot, ret) == u

\* the device struct after the control transfer returned `ret`
ClearStallToggle(u, slot, ret) ==
    IF ret = "SUCCESS" /\ slot # <<>> THEN SetToggle(u, slot, FALSE) ELSE u

ClearStallCall ==
    /\ HostIdle
    /\ \E ep \in {0} \cup BulkEps :
          LET slot == GetEndpoint(udev, ep)
          IN  IF ep # 0 /\ slot = <<>>
              THEN /\ cs' = [CsIdle EXCEPT !.pc = "done", !.ep = ep,
                                           !.ret = "PARAM_INVALID"]
                   /\ ct' = ct
              ELSE /\ cs' = [CsIdle EXCEPT !.pc = "wait", !.ep = ep, !.slot = slot,
                               !.toggleBefore =
                                   IF slot = <<>> THEN FALSE
                                   ELSE EpAt(udev, slot).data_toggle]
                   /\ \E o \in SetupOutcomes :
                         ct' = CtrlSetupStage(udev, ClearFeatureReq, "clear_stall", o)
    /\ UNCHANGED <<udev, heap, bk, nonHostVars>>

ClearStallFinish ==
    /\ cs.pc = "wait" /\ ct.pc = "done" /\ ct.caller = "clear_stall"
    /\ udev' = ClearStallToggle(udev, cs.slot, ct.ret)
    /\ cs' = [cs EXCEPT !.pc = "done",
                        !.ret = IF ct.ret = "SUCCESS" THEN "SUCCESS" ELSE "ERROR"]
    /\ ct' = CtIdle
    /\ UNCHANGED <<heap, bk, nonHostVars>>

ClearStallReturn ==
    /\ cs.pc = "done"
    /\ cs' = CsIdle
    /\ UNCHANGED <<udev, heap, ct, bk, nonHostVars>>

(***************************************************************************)
(* Chip command layer: drivers/ch37x/src/ch375.c.  Each operation is the   *)
(* list of its steps in program order.  A step is                          *)
(*   lock / unlock      k_mutex_lock(&pCtx->lock, K_FOREVER) / unlock      *)
(*   cmd / data / read  one byte on the link (ch375_writeCmd, _writeData,  *)
(*                      _readData); `fail` is where a link error leads     *)
(*   sleep / busy       k_msleep / k_busy_wait                             *)
(*   call               a call of another chip operation                   *)
(*   onfail             a test of the callee's return value                *)
(*   branch             a test of data the hardware supplied               *)
(*   ret                return, `op` being "ok" or "fail"                  *)
(* and `to` holds the steps that can follow it.                            *)
(***************************************************************************)
Ins(k, to, fail, op) == [k |-> k, to |-> to, fail |-> fail, op |-> op]

GetStatusProg ==
    << Ins("lock", {2}, 0, ""),
       Ins("cmd", {3}, 6, ""),
       Ins("read", {4}, 6, ""),
       Ins("unlock", {5}, 0, ""),
       Ins("ret", {}, 0, "ok"),
       Ins("unlock", {7}, 0, ""),
       Ins("ret", {}, 0, "fail") >>

SetUSBAddrProg ==
    << Ins("lock", {2}, 0, ""),
       Ins("cmd", {3}, 6, ""),
       Ins("data", {4}, 6, ""),
       Ins("unlock", {5}, 0, ""),
       Ins("ret", {}, 0, "ok"),
       Ins("unlock", {7}, 0, ""),
       Ins("ret", {}, 0, "fail") >>

\* the first status read, the polling loop with its adaptive pause, and the
\* last status read after the time is up
WaitIntProg ==
    << Ins("call", {2}, 0, "getStatus"),
       Ins("onfail", {3}, 4, ""),
       Ins("branch", {4, 12}, 0, ""),
       Ins("branch", {5, 13}, 0, ""),
       Ins("call", {6}, 0, "getStatus"),
       Ins("onfail", {7}, 8, ""),
       Ins("branch", {8, 12}, 0, ""),
       Ins("branch", {9, 10}, 0, ""),
       Ins("busy", {11}, 0, ""),
       Ins("sleep", {11}, 0, ""),
       Ins("branch", {4}, 0, ""),
       Ins("ret", {}, 0, "ok"),
       Ins("call", {14}, 0, "getStatus"),
       Ins("ret", {}, 0, "fail") >>

TestConnectProg ==
    << Ins("lock", {2}, 0, ""),
       Ins("cmd", {3}, 8, ""),
       Ins("sleep", {4}, 0, ""),
       Ins("read", {5}, 8, ""),
       Ins("branch", {6, 7}, 0, ""),
       Ins("call", {7}, 0, "getStatus"),
       Ins("ret", {}, 0, "ok"),
       Ins("unlock", {9}, 0, ""),
       Ins("ret", {}, 0, "fail") >>

\* a token issue that gives the mutex up after the command byte
SendTokenProgEarlyUnlock ==
    << Ins("lock", {2}, 0, ""),
       Ins("cmd", {3}, 13, ""),
       Ins("unlock", {4}, 0, ""),
       Ins("data", {5}, 13, ""),
       Ins("data", {6}, 13, ""),
       Ins("branch", {7, 8}, 0, ""),
       Ins("busy", {8}, 0, ""),
       Ins("call", {9}, 0, "waitInt"),
       Ins("onfail", {10}, 14, ""),
       Ins("call", {11}, 0, "getStatus"),
       Ins("onfail", {12}, 14, ""),
       Ins("ret", {}, 0, "ok"),
       Ins("unlock", {14}, 0, ""),
       Ins("ret", {}, 0, "fail") >>

\* the token issue under the mutex, then, with the mutex released, the
\* 500 us wait for a PID other than IN, ch375_waitInt and ch375_getStatus
SendTokenProg ==
    << Ins("lock", {2}, 0, ""),
       Ins("cmd", {3}, 13, ""),
       Ins("data", {4}, 13, ""),
       Ins("data", {5}, 13, ""),
       Ins("unlock", {6}, 0, ""),
       Ins("branch", {7, 8}, 0, ""),
       Ins("busy", {8}, 0, ""),
       Ins("call", {9}, 0, "waitInt"),
       Ins("onfail", {10}, 14, ""),
       Ins("call", {11}, 0, "getStatus"),
       Ins("onfail", {12}, 14, ""),
       Ins("ret", {}, 0, "ok"),
       Ins("unlock", {14}, 0, ""),
       Ins("ret", {}, 0, "fail") >>

\* the length byte, then payload bytes while the chip has some and the
\* buffer has room; a payload read that times out ends the packet
ReadBlockDataProg ==
    << Ins("lock", {2}, 0, ""),
       Ins("cmd", {3}, 7, ""),
       Ins("read", {4, 5}, 7, ""),
       Ins("read", {4, 5}, 7, ""),
       Ins("unlock", {6}, 0, ""),
       Ins("ret", {}, 0, "ok"),
       Ins("unlock", {8}, 0, ""),
       Ins("ret", {}, 0, "fail") >>

Prog(op) ==
    CASE op = "getStatus" -> GetStatusProg
      [] op = "setUSBAddr" -> SetUSBAddrProg
      [] op = "waitInt" -> WaitIntProg
      [] op = "testConnect" -> TestConnectProg
      [] op = "sendToken" -> SendTokenProg
      [] op = "readBlockData" -> ReadBlockDataProg

\* the operations the host layer calls on a context
ChipOps ==
    {"getStatus", "setUSBAddr", "testConnect", "sendToken", "readBlockData"}

Threads == {1, 2}

ThreadIdle ==
    [stack |-> <<>>, rv |-> "ok",
     \* history, for the properties:
     opOpen |-> FALSE,  \* the running operation has put a byte on the link
     holdCmds |-> 0]    \* command bytes written since the mutex was taken
                        \* (counted up to 2)

ChipIdle ==
    /\ mtx = [owner |-> 0, count |-> 0]
    /\ th = [t \in Threads |-> ThreadIdle]
    /\ io = [last |-> 0,        \* thread that put the last byte on the link
             pairCut |-> FALSE,  \* a pair went on after a byte of another thread
             opCut |-> FALSE,    \* an operation went on after a byte of another
             bare |-> FALSE]     \* a byte went out without the mutex held

Top(t) == th[t].stack[Len(th[t].stack)]

Cur(t) == Prog(Top(t).op)[Top(t).pc]

Running(t) == th[t].stack # <<>>

AtKind(t, ks) == Running(t) /\ Cur(t).k \in ks

\* the stack with the top frame moved to step pc; a jump that does not go
\* forward is counted in the frame
Goto(t, pc) ==
    LET n == Len(th[t].stack)
        f == Top(t)
    IN  [th[t].stack EXCEPT ![n] =
            [f EXCEPT !.pc = pc, !.n = IF pc <= f.pc THEN f.n + 1 ELSE f.n]]

CanGo(t, pc) == pc <= Top(t).pc => Top(t).n < MaxLoop

\* a thread enters a chip operation
ChipCall(t) ==
    /\ ~Running(t)
    /\ \E op \in ChipOps :
          /\ op = "testConnect" => mtx.count < MaxHold
          /\ th' = [th EXCEPT ![t].stack = <<[op |-> op, pc |-> 1, n |-> 0]>>,
                              ![t].rv = "ok"]
    /\ UNCHANGED <<mtx, io, nonChipVars>>

\* k_mutex_lock(K_FOREVER): granted when the mutex is free or already held
\* by the caller (the lock count goes up), else the thread stays blocked
ChipLock(t) ==
    /\ AtKind(t, {"lock"})
    /\ mtx.owner \in {0, t}
    /\ mtx' = [owner |-> t, count |-> mtx.count + 1]
    /\ \E pc \in Cur(t).to : th' = [th EXCEPT ![t].stack = Goto(t, pc)]
    /\ UNCHANGED <<io, nonChipVars>>

\* k_mutex_unlock: the count goes down and the last unlock frees the mutex;
\* from a thread that is not the owner it changes nothing
ChipUnlock(t) ==
    /\ AtKind(t, {"unlock"})
    /\ mtx' = IF mtx.owner # t THEN mtx
              ELSE IF mtx.count > 1 THEN [mtx EXCEPT !.count = @ - 1]
              ELSE [owner |-> 0, count |-> 0]
    /\ \E pc \in Cur(t).to :
          th' = [th EXCEPT ![t].stack = Goto(t, pc),
                           ![t].holdCmds =
                               IF mtx.owner = t /\ mtx.count = 1 THEN 0 ELSE @]
    /\ UNCHANGED <<io, nonChipVars>>

\* one byte on the link: ch375_writeCmd, ch375_writeData or ch375_readData,
\* which succeeds or reports a link error
ChipLinkByte(t) ==
    /\ AtKind(t, {"cmd", "data", "read"})
    /\ \E ok \in BOOLEAN :
       \E pc \in (IF ok THEN Cur(t).to ELSE {Cur(t).fail}) :
          /\ CanGo(t, pc)
          /\ th' = [th EXCEPT
                      ![t].stack = Goto(t, pc),
                      ![t].opOpen = TRUE,
                      ![t].holdCmds = IF Cur(t).k = "cmd" /\ @ < 2 THEN @ + 1 ELSE @]
    /\ io' = [last |-> t,
              pairCut |-> io.pairCut \/ (Cur(t).k # "cmd" /\ io.last # t),
              opCut |-> io.opCut \/ (th[t].opOpen /\ io.last # t),
              bare |-> io.bare \/ mtx.owner # t]
    /\ UNCHANGED <<mtx, nonChipVars>>

\* k_msleep or k_busy_wait runs to its end
ChipPause(t) ==
    /\ AtKind(t, {"sleep", "busy"})
    /\ \E pc \in Cur(t).to : th' = [th EXCEPT ![t].stack = Goto(t, pc)]
    /\ UNCHANGED <<mtx, io, nonChipVars>>

\* a call of another chip operation from inside one
ChipNested(t) ==
    /\ AtKind(t, {"call"})
    /\ \E pc \in Cur(t).to :
          th' = [th EXCEPT ![t].stack =
                    Append(Goto(t, pc), [op |-> Cur(t).op, pc |-> 1, n |-> 0])]
    /\ UNCHANGED <<mtx, io, nonChipVars>>

\* a test of the callee's return value or of data the hardware supplied
ChipBranch(t) ==
    /\ AtKind(t, {"onfail", "branch"})
    /\ \E pc \in (IF Cur(t).k = "onfail" /\ th[t].rv = "fail"
                  THEN {Cur(t).fail} ELSE Cur(t).to) :
          /\ CanGo(t, pc)
          /\ th' = [th EXCEPT ![t].stack = Goto(t, pc)]
    /\ UNCHANGED <<mtx, io, nonChipVars>>

\* return from a chip operation, to the calling operation or to the host
ChipReturn(t) ==
    /\ AtKind(t, {"ret"})
    /\ LET rest == SubSeq(th[t].stack, 1, Len(th[t].stack) - 1)
       IN  th' = [th EXCEPT ![t].stack = rest,
                            ![t].rv = Cur(t).op,
                            ![t].opOpen = IF rest = <<>> THEN FALSE ELSE @]
    /\ UNCHANGED <<mtx, io, nonChipVars>>

InitChip ==
    /\ udev = ZeroDev
    /\ heap = HeapInit
    /\ ct = CtIdle
    /\ bk = BkIdle
    /\ cs = CsIdle
    /\ ChipIdle
    /\ sink = SinkStart
    /\ enum = EnumIdle
    /\ AppLayerIdle

NextChip ==
    \E t \in Threads :
        \/ ChipCall(t)
        \/ ChipLock(t)
        \/ ChipUnlock(t)
        \/ ChipLinkByte(t)
        \/ ChipPause(t)
        \/ ChipNested(t)
        \/ ChipBranch(t)
        \/ ChipReturn(t)

SpecChip == InitChip /\ [][NextChip]_vars

(***************************************************************************)
(* Output sink: src/usb_hid_proxy.c.  Interface 0 is the mouse endpoint,   *)
(* interface 1 the keyboard endpoint.  The main thread calls init, send    *)
(* and cleanup one after the other; the USB device stack calls the status  *)
(* callback and the endpoint-ready callbacks at any time.                  *)
(***************************************************************************)
\* usbhid_proxyInit: flag reset, bindings, registration, usb_enable
SinkInit ==
    /\ sink.pc = "idle" /\ ~sink.devs
    /\ \E ok \in BOOLEAN :
          sink' = [sink EXCEPT !.isUsbConfigured = FALSE, !.devs = ok]
    /\ UNCHANGED <<hostVars, chipVars, appVars>>

SinkDone(s, r) == [s EXCEPT !.pc = "done", !.ret = r]

\* the limit both semaphores are defined with: K_SEM_DEFINE(mouseSem, 1, 1)
SemLimit == 1

\* k_sem_give on such a semaphore: the count goes up by one unless it is at
\* the limit already
k_sem_give(count) == IF count < SemLimit THEN count + 1 ELSE count

\* usbhid_proxySendReport up to the wait for the semaphore
SendEntry(s, iface, paramsOk) ==
    LET s0 == [s EXCEPT !.iface = iface, !.wrote = FALSE,
                        !.cfgAtEntry = s.isUsbConfigured]
    IN  IF ~paramsOk THEN SinkDone(s0, "EINVAL")
        ELSE IF ~s.isUsbConfigured THEN SinkDone(s0, "EAGAIN")
        ELSE IF iface \notin Ifaces THEN SinkDone(s0, "EINVAL")
        ELSE IF ~s.devs THEN SinkDone(s0, "ENODEV")
        ELSE [s0 EXCEPT !.pc = "take"]

SendCall ==
    /\ sink.pc = "idle"
    /\ \E iface \in Ifaces \cup {2}, paramsOk \in BOOLEAN :
          sink' = SendEntry(sink, iface, paramsOk)
    /\ UNCHANGED <<hostVars, chipVars, appVars>>

\* k_sem_take(semaphore, K_MSEC(100)) is granted
SendTake ==
    /\ sink.pc = "take"
    /\ sink.sem[sink.iface] > 0
    /\ sink' = [sink EXCEPT !.sem[sink.iface] = @ - 1, !.pc = "write",
                            !.used = TRUE,
                            !.cfgAtTake = sink.isUsbConfigured]
    /\ UNCHANGED <<hostVars, chipVars, appVars>>

\* the 100 ms pass without the semaphore being given
SendTakeTimeout ==
    /\ sink.pc = "take"
    /\ sink.sem[sink.iface] = 0
    /\ sink' = SinkDone(sink, "EBUSY")
    /\ UNCHANGED <<hostVars, chipVars, appVars>>

\* a send that gives the semaphore back whatever the write returned
SendAfterWriteAlwaysGive(s, ok) ==
    LET i == s.iface
        w == [s EXCEPT !.wrote = TRUE,
                       !.overlap = @ \/ s.inflight[i],
                       !.sem[i] = 1]
    IN  IF ok THEN SinkDone([w EXCEPT !.inflight[i] = TRUE], "OK")
        ELSE SinkDone(w, "EIO")

\* a send that returns the write's error with the semaphore still taken
SendAfterWriteKeepsSem(s, ok) ==
    LET i == s.iface
        w == [s EXCEPT !.wrote = TRUE,
                       !.overlap = @ \/ s.inflight[i]]
    IN  IF ok THEN SinkDone([w EXCEPT !.inflight[i] = TRUE], "OK")
        ELSE SinkDone(w, "EIO")

\* hid_int_ep_write and what follows it: on failure the semaphore is given
\* back, on success it stays taken until the ready callback
SendAfterWrite(s, ok) ==
    LET i == s.iface
        w == [s EXCEPT !.wrote = TRUE,
                       !.overlap = @ \/ s.inflight[i]]
    IN  IF ok THEN SinkDone([w EXCEPT !.inflight[i] = TRUE], "OK")
        ELSE SinkDone([w EXCEPT !.sem[i] = k_sem_give(@)], "EIO")

SendWrite ==
    /\ sink.pc = "write"
    /\ \E ok \in BOOLEAN : sink' = SendAfterWrite(sink, ok)
    /\ UNCHANGED <<hostVars, chipVars, appVars>>

SendReturn ==
    /\ sink.pc = "done"
    /\ sink' = [sink EXCEPT !.pc = "idle"]
    /\ UNCHANGED <<hostVars, chipVars, appVars>>

\* mouse_int_in_ready / kbd_int_in_ready: the stack reports the end of the
\* write in flight; k_sem_give on a semaphore of limit 1
IntInReady(i) ==
    /\ sink.inflight[i]
    /\ sink' = [sink EXCEPT !.inflight[i] = FALSE, !.sem[i] = k_sem_give(@)]
    /\ UNCHANGED <<hostVars, chipVars, appVars>>

\* the status codes the callback's switch tells apart
StatusCodes ==
    {"ERROR", "RESET", "CONNECTED", "CONFIGURED", "DISCONNECTED", "SUSPEND",
     "RESUME", "OTHER"}

StatusFlag(flag, status) ==
    IF status \in {"ERROR", "RESET", "DISCONNECTED"} THEN FALSE
    ELSE IF status \in {"CONFIGURED", "RESUME"} THEN TRUE
    ELSE flag

\* usb_status_cb, called by the stack once usb_enable has registered it
UsbStatusCb ==
    /\ sink.devs
    /\ \E status \in StatusCodes :
          sink' = [sink EXCEPT !.isUsbConfigured = StatusFlag(@, status)]
    /\ UNCHANGED <<hostVars, chipVars, appVars>>

\* usbhid_proxyCleanup: usb_disable (which drops the writes in flight), flag
\* and pointers cleared, both semaphores reset (count 0) and given
SinkCleanup ==
    /\ sink.pc = "idle"
    /\ sink' = [sink EXCEPT !.isUsbConfigured = FALSE, !.devs = FALSE,
                            !.inflight = [i \in Ifaces |-> FALSE],
                            !.sem = [i \in Ifaces |-> k_sem_give(0)]]
    /\ UNCHANGED <<hostVars, chipVars, appVars>>

InitSink ==
    /\ udev = ZeroDev
    /\ heap = HeapInit
    /\ ct = CtIdle
    /\ bk = BkIdle
    /\ cs = CsIdle
    /\ ChipIdle
    /\ sink = SinkStart
    /\ enum = EnumIdle
    /\ AppLayerIdle

NextSink ==
    \/ SinkInit
    \/ SendCall
    \/ SendTake
    \/ SendTakeTimeout
    \/ SendWrite
    \/ SendReturn
    \/ \E i \in Ifaces : IntInReady(i)
    \/ UsbStatusCb
    \/ SinkCleanup

SpecSink == InitSink /\ [][NextSink]_vars

(***************************************************************************)
(* Device open and close: ch375_hostUdevOpen, ch375_hostUdevClose and the  *)
(* helpers of the enumeration sequence.                                    *)
(***************************************************************************)
\* reset_dev: set mode Reset, set mode SofAuto, reconnect wait (and the
\* second set mode SofAuto when the wait fails); m1, m2, m3 tell whether
\* the set-mode calls succeed, wait is ch375_hostWaitDeviceConnect's return
reset_dev(m1, m2, wait, m3) ==
    IF ~m1 THEN "ERROR"
    ELSE IF ~m2 THEN "ERROR"
    ELSE IF wait # "SUCCESS"
         THEN IF ~m3 THEN "ERROR" ELSE "DEV_DISCONNECT"
    ELSE "SUCCESS"

\* ch375_hostResetDev.  tc is the answer of ch37x_testConnect, spOk and sp
\* the result of ch37x_getDevSpeed, resetRet the return of reset_dev, sd
\* whether ch37x_setDevSpeed succeeds.  `reset` is reset_dev's return when
\* it ran
HostResetDev(u, tc, spOk, sp, resetRet, sd) ==
    LET off == [u EXCEPT !.connected = FALSE, !.configured = FALSE]
    IN  IF u.ctx = "NULL"
        THEN [u |-> u, ret |-> "PARAM_INVALID", reset |-> "none"]
        ELSE IF tc = "fail"
        THEN [u |-> off, ret |-> "ERROR", reset |-> "none"]
        ELSE IF tc = "disconnect"
        THEN [u |-> off, ret |-> "DEV_DISCONNECT", reset |-> "none"]
        ELSE IF ~spOk
        THEN [u |-> off, ret |-> "ERROR", reset |-> "none"]
        ELSE LET u2 == [u EXCEPT !.configured = FALSE, !.speed = sp]
                 off2 == [u2 EXCEPT !.connected = FALSE]
             IN  IF resetRet = "DEV_DISCONNECT"
                 THEN [u |-> off2, ret |-> "DEV_DISCONNECT", reset |-> resetRet]
                 ELSE IF sp = USB_SPEED_SPEED_LS /\ ~sd
                 THEN [u |-> off2, ret |-> "DEV_DISCONNECT", reset |-> resetRet]
                 ELSE [u |-> [u2 EXCEPT !.connected = TRUE, !.configured = TRUE],
                       ret |-> "SUCCESS", reset |-> resetRet]

\* the failure exit of open after the reset: free the descriptor buffer the
\* struct points to, if any, and zero the struct
OpenFail(u, h) ==
    [u |-> ZeroDev,
     h |-> IF u.raw_conf_desc = "buf"
           THEN [h EXCEPT !.state = "freed", !.frees = @ + 1]
           ELSE IF u.raw_conf_desc = "wild"
           THEN [h EXCEPT !.wildFrees = @ + 1]
           ELSE h]

\* kinds of descriptor in a configuration descriptor: INTERFACE, ENDPOINT
\* (EP), ENDPOINT whose wMaxPacketSize is 0 (EPZ), any other type, one with
\* bLength 0, one that runs past the end
DescKinds == {"IF", "EP", "EPZ", "OTHER", "ZERO", "LONG"}

\* wMaxPacketSize of an ENDPOINT descriptor of the given kind
DescMaxPacket(kind) == IF kind = "EPZ" THEN 0 ELSE 4

DescLists == UNION {[1..n -> DescKinds] : n \in 0..MaxDescs}

\* what an ENDPOINT descriptor stored through &interfaces[-1] lands on: the
\* fields that precede the interface table in struct USB_Device_t
OobTargets == {"raw_dev_desc", "raw_conf_desc"}

\* parse_interface_descriptor
ParseInterface(u) ==
    LET i == u.interface_count
    IN  IF i <= 3
        THEN [u EXCEPT !.interfaces[i].interface_number = i,
                       !.interfaces[i].interface_class = 3,
                       !.interface_count = i + 1]
        ELSE [u EXCEPT !.connected = TRUE, !.interface_count = U8(i + 1)]

\* parse_endpoint_descriptor on &pUdev->interfaces[interface_count - 1]
ParseEndpoint(u, clob, wMaxPacketSize) ==
    LET i == u.interface_count - 1
    IN  IF i < 0
        THEN IF clob = "raw_conf_desc" THEN [u EXCEPT !.raw_conf_desc = "wild"]
             ELSE [u EXCEPT !.raw_dev_desc = "clobbered"]
        ELSE IF i > 3 THEN [u EXCEPT !.configured = TRUE]
        ELSE LET j == u.interfaces[i].endpoint_count
             IN  IF j <= 3
                 THEN [u EXCEPT !.interfaces[i].endpoints[j] =
                                    [XferEndpoint(129) EXCEPT
                                       !.max_packet = wMaxPacketSize],
                                !.interfaces[i].endpoint_count = j + 1]
                 ELSE [u EXCEPT !.interfaces[i].endpoint_count = U8(j + 1)]

\* the descriptor walk of parse_config_descriptor
RECURSIVE ParseWalk(_, _, _)
ParseWalk(u, items, clob) ==
    IF items = <<>> THEN [u |-> u, ret |-> "SUCCESS"]
    ELSE IF Head(items) \in {"ZERO", "LONG"} THEN [u |-> u, ret |-> "ERROR"]
    ELSE IF Head(items) = "IF" THEN ParseWalk(ParseInterface(u), Tail(items), clob)
    ELSE IF Head(items) \in {"EP", "EPZ"}
    THEN ParseWalk(ParseEndpoint(u, clob, DescMaxPacket(Head(items))),
                   Tail(items), clob)
    ELSE ParseWalk(u, Tail(items), clob)

parse_config_descriptor(u, items, clob) ==
    IF u.raw_conf_desc = "NULL" \/ u.raw_conf_desc_len = 0
    THEN [u |-> u, ret |-> "ERROR"]
    ELSE ParseWalk(u, items, clob)

\* the control transfers of the enumeration sequence, by stage
OpenCtrlStages == {"dev8", "dev18", "addr", "conf9", "conffull", "setconf"}

OpenRequest(stage, e) ==
    IF stage \in {"addr", "setconf"}
    THEN [dirIn |-> FALSE, getDesc |-> FALSE, wLength |-> 0, hasBuf |-> FALSE,
          timeout |-> MaxTimeout]
    ELSE [dirIn |-> TRUE, getDesc |-> TRUE, hasBuf |-> TRUE,
          timeout |-> MaxTimeout,
          wLength |-> IF stage = "dev8" THEN 8
                      ELSE IF stage = "dev18" THEN 18
                      ELSE IF stage = "conf9" THEN 9
                      ELSE e.conf_total_len]

\* whether the stage's call succeeded: the transfer's return code, the
\* length check of get_config_descriptor, ch37x_setUSBAddr for the address
OpenStageOk(stage, c, chipOk) ==
    /\ c.ret = "SUCCESS"
    /\ stage \in {"conf9", "conffull"} => c.actual >= c.wLength
    /\ stage = "addr" => chipOk

\* total lengths a device declares for its configuration descriptor
ConfLens == {0, 32, 300}

\* the struct after a stage succeeded; bMax and total are the device's
\* bMaxPacketSize0 and wTotalLength
OpenAfterStage(u, stage, c, bMax, total) ==
    IF stage = "dev8"
    THEN [u EXCEPT !.raw_dev_desc = "partial",
                   !.ep0_max_packet = IF c.total >= 8 THEN bMax ELSE 0]
    ELSE IF stage = "dev18"
    THEN [u EXCEPT !.raw_dev_desc = "full", !.vendor_id = 1, !.product_id = 1]
    ELSE IF stage = "conf9"
    THEN [u EXCEPT !.config_value = 1, !.raw_conf_desc_len = total]
    ELSE IF stage = "setconf"
    THEN [u EXCEPT !.connected = TRUE]
    ELSE u

OpenNextPc(stage) ==
    CASE stage = "dev8" -> "dev18"
      [] stage = "dev18" -> "addr"
      [] stage = "addr" -> "conf9"
      [] stage = "conf9" -> "alloc"
      [] stage = "conffull" -> "parse"
      [] stage = "setconf" -> "done"

EnumDone(e, r) ==
    [e EXCEPT !.pc = "done", !.ret = r,
              !.stepFailed = @ \/ r # "SUCCESS"]

\* history: open issues a step; the step returns
Issued(e, step) == [e EXCEPT !.log = Append(@, step)]

Settled(e, ok) == [e EXCEPT !.okLog = Append(@, ok)]

\* history of a control-transfer step that has returned: the assignment of
\* ep0_max_packet follows the first GET_DESCRIPTOR, ch37x_setUSBAddr follows
\* SET_ADDRESS, each only when the transfer succeeded
OpenSettle(e, stage, c, chipOk) ==
    LET ok == c.ret = "SUCCESS" /\ (stage \in {"conf9", "conffull"} =>
                                       c.actual >= c.wLength)
        e1 == Settled(e, ok)
    IN  IF ok /\ stage = "dev8" THEN Settled(Issued(e1, "ep0"), TRUE)
        ELSE IF ok /\ stage = "addr" THEN Settled(Issued(e1, "chipaddr"), chipOk)
        ELSE e1

\* entry of ch375_hostUdevOpen on a struct that holds no open device
OpenCall ==
    /\ enum.pc = "idle" /\ HostIdle
    /\ ~udev.connected /\ heap.state # "allocated"
    /\ \E c \in {"ctx", "NULL"} :
          udev' = [ZeroDev EXCEPT !.ctx = c,
                                  !.ep0_max_packet = USB_DEFAULT_EP0_MAX_PACKSIZE]
    /\ heap' = HeapInit
    /\ enum' = [EnumIdle EXCEPT !.pc = "reset"]
    /\ UNCHANGED <<ct, bk, cs, chipVars, sink, appVars>>

OpenReset ==
    /\ enum.pc = "reset"
    /\ \E tc \in {"fail", "disconnect", "connected"},
          spOk \in BOOLEAN, sp \in {USB_SPEED_SPEED_LS, USB_SPEED_SPEED_FS},
          m1 \in BOOLEAN, m2 \in BOOLEAN, m3 \in BOOLEAN,
          wait \in {"SUCCESS", "ERROR", "TIMEOUT"}, sd \in BOOLEAN :
          LET r == HostResetDev(udev, tc, spOk, sp, reset_dev(m1, m2, wait, m3), sd)
              e == Settled(Issued([enum EXCEPT !.stepFailed =
                                        r.reset \notin {"none", "SUCCESS"}],
                                  "reset"),
                           r.ret = "SUCCESS" /\ r.reset = "SUCCESS")
          IN  /\ udev' = r.u
              /\ enum' = IF r.ret = "SUCCESS" THEN [e EXCEPT !.pc = "dev8"]
                         ELSE EnumDone(e, r.ret)
    /\ UNCHANGED <<heap, ct, bk, cs, chipVars, sink, appVars>>

OpenCtrlStart ==
    /\ enum.pc \in OpenCtrlStages /\ ct.pc = "idle"
    /\ \E o \in SetupOutcomes :
          ct' = CtrlSetupStage(udev, OpenRequest(enum.pc, enum), "open", o)
    /\ enum' = [Issued(enum, enum.pc) EXCEPT
                  !.lens = Append(@, OpenRequest(enum.pc, enum).wLength),
                  !.ep0First = IF enum.pc = "dev8" THEN udev.ep0_max_packet
                               ELSE @]
    /\ UNCHANGED <<udev, heap, bk, cs, chipVars, sink, appVars>>

OpenCtrlDone ==
    /\ enum.pc \in OpenCtrlStages
    /\ ct.pc = "done" /\ ct.caller = "open"
    /\ \E chipOk \in BOOLEAN, bMax \in Ep0Sizes, total \in ConfLens :
          LET e == OpenSettle(enum, enum.pc, ct, chipOk)
          IN  IF OpenStageOk(enum.pc, ct, chipOk)
              THEN /\ udev' = OpenAfterStage(udev, enum.pc, ct, bMax, total)
                   /\ heap' = heap
                   /\ enum' = IF enum.pc = "setconf" THEN EnumDone(e, "SUCCESS")
                              ELSE [e EXCEPT
                                      !.pc = OpenNextPc(enum.pc),
                                      !.conf_total_len =
                                          IF enum.pc = "conf9" THEN total ELSE @]
              ELSE /\ udev' = OpenFail(udev, heap).u
                   /\ heap' = OpenFail(udev, heap).h
                   /\ enum' = EnumDone(e, "ERROR")
    /\ ct' = CtIdle
    /\ UNCHANGED <<bk, cs, chipVars, sink, appVars>>

\* k_malloc(conf_total_len) and the memset of the buffer
OpenAlloc ==
    /\ enum.pc = "alloc"
    /\ \E ok \in BOOLEAN :
          IF ok
          THEN /\ udev' = [udev EXCEPT !.raw_conf_desc = "buf"]
               /\ heap' = [heap EXCEPT !.state = "allocated"]
               /\ enum' = [enum EXCEPT !.pc = "conffull", !.allocated = TRUE]
          ELSE /\ udev' = OpenFail(udev, heap).u
               /\ heap' = OpenFail(udev, heap).h
               /\ enum' = EnumDone(enum, "ERROR")
    /\ UNCHANGED <<ct, bk, cs, chipVars, sink, appVars>>

OpenParse ==
    /\ enum.pc = "parse"
    /\ \E items \in DescLists, clob \in OobTargets :
          LET r == parse_config_descriptor(udev, items, clob)
              e == Settled(Issued(enum, "walk"), r.ret = "SUCCESS")
          IN  IF r.ret = "SUCCESS"
              THEN /\ udev' = r.u
                   /\ heap' = heap
                   /\ enum' = [e EXCEPT !.pc = "setconf"]
              ELSE /\ udev' = OpenFail(r.u, heap).u
                   /\ heap' = OpenFail(r.u, heap).h
                   /\ enum' = EnumDone(e, "ERROR")
    /\ UNCHANGED <<ct, bk, cs, chipVars, sink, appVars>>

OpenReturn ==
    /\ enum.pc = "done"
    /\ enum' = [enum EXCEPT !.pc = "idle"]
    /\ UNCHANGED <<udev, heap, ct, bk, cs, chipVars, sink, appVars>>

\* ch375_hostUdevClose
UdevClose ==
    /\ enum.pc = "idle" /\ HostIdle
    /\ udev' = OpenFail(udev, heap).u
    /\ heap' = OpenFail(udev, heap).h
    /\ UNCHANGED <<enum, ct, bk, cs, chipVars, sink, appVars>>

InitOpen ==
    /\ udev = ZeroDev
    /\ heap = HeapInit
    /\ ct = CtIdle
    /\ bk = BkIdle
    /\ cs = CsIdle
    /\ ChipIdle
    /\ sink = SinkStart
    /\ enum = EnumIdle
    /\ AppLayerIdle

NextOpen ==
    \/ OpenCall
    \/ OpenReset
    \/ OpenCtrlStart
    \/ CtrlDataIn
    \/ CtrlStatus
    \/ OpenCtrlDone
    \/ OpenAlloc
    \/ OpenParse
    \/ OpenReturn
    \/ UdevClose

SpecOpen == InitOpen /\ [][NextOpen]_vars

(***************************************************************************)
(* SpecXfer: transfers on an enumerated device.  The device struct is the  *)
(* one a successful open leaves: one HID interface with an interrupt IN    *)
(* endpoint 0x81, an OUT endpoint 0x01 and an IN endpoint 0x83 whose       *)
(* descriptor declared wMaxPacketSize 0, toggles DATA0; EP0 packet size    *)
(* as the device descriptor declared it (unchecked by the driver).         *)
(***************************************************************************)
XferDev(ep0) ==
    [ZeroDev EXCEPT
        !.ctx = "ctx", !.ep0_max_packet = ep0, !.config_value = 1,
        !.raw_dev_desc = "full", !.raw_conf_desc = "buf",
        !.raw_conf_desc_len = 32, !.interface_count = 1,
        !.interfaces[0] =
            [interface_number |-> 0, interface_class |-> 3, endpoint_count |-> 3,
             endpoints |-> [j \in 0..3 |->
                 IF j = 0 THEN XferEndpoint(129)
                 ELSE IF j = 1 THEN XferEndpoint(1)
                 ELSE IF j = 2 THEN [XferEndpoint(131) EXCEPT !.max_packet = 0]
                 ELSE ZeroEndpoint]],
        !.connected = TRUE, !.configured = TRUE]

\* a report read that flips the toggle on a NAK as well
HidReadFlipsOnNak(retryOk, o, rdFail) ==
    retryOk /\ (o = "Nak" \/ (o = "IntSuccess" /\ ~rdFail))

\* usbhid_read: whether the call reaches pEP->data_toggle = !pEP->data_toggle.
\* retryOk: ch37x_setRetry succeeds; o: the outcome of the IN token;
\* rdFail: ch37x_readBlockData fails
HidReadFlips(retryOk, o, rdFail) ==
    retryOk /\ o = "IntSuccess" /\ ~rdFail

\* usbhid_read: the return code
HidReadRet(retryOk, o, rdFail) ==
    IF ~retryOk \/ o = "token_fail" THEN "IO_ERROR"
    ELSE IF o = "IntSuccess" THEN (IF rdFail THEN "IO_ERROR" ELSE "SUCCESS")
    ELSE IF o = "Nak" THEN "EAGAIN"
    ELSE IF o = "IntDisconnect" THEN "NO_DEV"
    ELSE "IO_ERROR"

\* a report fetch on the HID device's cached endpoint, the interrupt IN
\* endpoint of the interface: usbhid_read from entry to return
HidReadCall ==
    /\ HostIdle /\ fn = FnIdle
    /\ \E retryOk \in BOOLEAN, o \in TokenOutcomes, rdFail \in BOOLEAN :
          LET slot == GetEndpoint(udev, 129)
          IN  /\ udev' = IF HidReadFlips(retryOk, o, rdFail)
                         THEN SetToggle(udev, slot, ~EpAt(udev, slot).data_toggle)
                         ELSE udev
              /\ fn' = [kind |-> "read", slot |-> slot,
                        ret |-> HidReadRet(retryOk, o, rdFail),
                        \* history, for the properties:
                        retryOk |-> retryOk, status |-> o, rdFail |-> rdFail]
    /\ UNCHANGED <<heap, ct, bk, cs, mtx, th, io, sink, enum, app, hid, kbd, rc>>

HidReadReturn ==
    /\ fn.kind = "read"
    /\ fn' = FnIdle
    /\ UNCHANGED <<driverVars, app, hid, kbd, rc>>

InitXfer ==
    /\ udev \in {XferDev(ep0) : ep0 \in Ep0Sizes}
    /\ heap = [HeapInit EXCEPT !.state = "allocated"]
    /\ ct = CtIdle
    /\ bk = BkIdle
    /\ cs = CsIdle
    /\ ChipIdle
    /\ sink = SinkStart
    /\ enum = EnumIdle
    /\ AppLayerIdle

NextXfer ==
    \/ CtrlCall
    \/ CtrlDataIn
    \/ CtrlDataOut
    \/ CtrlStatus
    \/ CtrlReturn
    \/ BulkCall
    \/ BulkLoop
    \/ BulkReturn
    \/ ClearStallCall
    \/ ClearStallFinish
    \/ ClearStallReturn
    \/ HidReadCall
    \/ HidReadReturn

SpecXfer == InitXfer /\ [][NextXfer]_vars

(***************************************************************************)
(* SpecMain: the main loop of src/main.c.  Channel 0 carries the mouse,    *)
(* channel 1 the keyboard.  The driver calls below it are taken by their   *)
(* results: a fetch returns "SUCCESS", "EAGAIN", "NO_DEV" or "IO_ERROR".   *)
(***************************************************************************)
\* the driver layer with no call running
DriverIdle ==
    /\ udev = ZeroDev
    /\ heap = HeapInit
    /\ ct = CtIdle
    /\ bk = BkIdle
    /\ cs = CsIdle
    /\ ChipIdle
    /\ sink = SinkStart
    /\ enum = EnumIdle

FetchResults == {"SUCCESS", "EAGAIN", "NO_DEV", "IO_ERROR"}

\* X values a mouse reports, and the x of a compensation tick
DevXs == {0, 2}

CompXs == {1}

\* the reports a mouse delivers: left-button bit and X axis
MouseReports == [lmb : BOOLEAN, x : DevXs]

\* a fetch is issued on the mouse channel; r is the report it delivers on
\* success, otherwise the current report stays as it is
MouseFetch(a, f, r) ==
    [a EXCEPT !.dropped = @ \/ a.unsent,
              !.unsent = IF f = "SUCCESS" THEN TRUE ELSE @,
              !.lmb = IF f = "SUCCESS" THEN r.lmb ELSE @,
              !.x = IF f = "SUCCESS" THEN r.x ELSE @,
              !.devX = IF f = "SUCCESS" THEN r.x ELSE @,
              !.ticks = IF f = "SUCCESS" THEN 0 ELSE @,
              !.discPending = @ \/ f = "NO_DEV"]

\* hidMouse_GetOrientation, the addition and hidMouse_SetOrientation on the
\* current report (isLast = false); the sums of the model fit the field
MouseCompensate(a, c) ==
    LET mouseX == a.x
        finalX == mouseX + c
    IN  [a EXCEPT !.x = finalX, !.ticks = @ + 1]

\* hidOutput_sendMouseReport / usbhid_proxySendReport is called with the
\* current report
SendToSink(a) ==
    [a EXCEPT !.unsent = FALSE, !.fwdAfterDisc = @ \/ a.discPending,
              !.sent = [x |-> a.x, devX |-> a.devX, ticks |-> a.ticks]]

\* closeAllDevices
closeAllDevices(a) ==
    [a EXCEPT !.opened = [c \in Channels |-> FALSE],
              !.isConnected = [c \in Channels |-> FALSE],
              !.unsent = FALSE, !.lmb = FALSE,
              !.x = 0, !.devX = 0, !.ticks = 0]

\* handleMouseInput and the test of its return value in loopHandleDevices.
\* f1, r1: the first fetch; gn: recoilComp_getNextData returned 0, with c
\* the x of its tick; f2, r2: the fetch of the branch that has no
\* compensation data
handleMouseInput(a, f1, r1, gn, c, f2, r2) ==
    LET a1 == MouseFetch(a, f1, r1)
        a2 == [a1 EXCEPT !.gRcActive = a1.lmb]
    IN  IF f1 = "NO_DEV" THEN [a1 EXCEPT !.pc = "teardown"]
        ELSE LET r == IF a1.lmb /\ a.gRcEnabled
                      THEN IF gn THEN SendToSink(MouseCompensate(a2, c))
                           ELSE LET a3 == MouseFetch(a2, f2, r2)
                                IN  IF f2 = "SUCCESS" THEN SendToSink(a3) ELSE a3
                      ELSE IF f1 = "SUCCESS" THEN SendToSink(a2) ELSE a2
             IN  [r EXCEPT !.i = 1]

\* usbhid_proxySendReport is called with the keyboard's report
KbdSendToSink(a) ==
    [a EXCEPT !.fwdAfterDisc = @ \/ a.discPending]

\* handleKeyboardInput with a PAGEDOWN that also stops the compensation run
handleKeyboardInputStopsRun(a, f, pgup, pgdn) ==
    IF f = "NO_DEV" THEN [a EXCEPT !.discPending = TRUE, !.pc = "teardown"]
    ELSE IF f # "SUCCESS" \/ <<pgup, pgdn>> = a.lastKeyboardReport
    THEN [a EXCEPT !.i = 0]
    ELSE LET en == IF pgdn THEN FALSE ELSE IF pgup THEN TRUE ELSE a.gRcEnabled
         IN  [KbdSendToSink(a) EXCEPT !.lastKeyboardReport = <<pgup, pgdn>>,
                                      !.gRcEnabled = en,
                                      !.gRcActive = IF pgdn THEN FALSE ELSE @,
                                      !.i = 0]

\* handleKeyboardInput and the test of its return value.  f: the fetch;
\* pgup, pgdn: the PAGEUP / PAGEDOWN keys are down in the report fetched
handleKeyboardInput(a, f, pgup, pgdn) ==
    IF f = "NO_DEV" THEN [a EXCEPT !.discPending = TRUE, !.pc = "teardown"]
    ELSE IF f # "SUCCESS" \/ <<pgup, pgdn>> = a.lastKeyboardReport
    THEN [a EXCEPT !.i = 0]
    ELSE LET en == IF pgdn THEN FALSE ELSE IF pgup THEN TRUE ELSE a.gRcEnabled
         IN  [KbdSendToSink(a) EXCEPT !.lastKeyboardReport = <<pgup, pgdn>>,
                                      !.gRcEnabled = en, !.i = 0]

\* the arguments explored for the two handlers
MouseIns ==
    FetchResults \X MouseReports \X BOOLEAN \X CompXs \X FetchResults \X MouseReports

KbdIns == FetchResults \X BOOLEAN \X BOOLEAN

MouseStep(a, in) ==
    handleMouseInput(a, in[1], in[2], in[3], in[4], in[5], in[6])

KbdStep(a, in) == handleKeyboardInput(a, in[1], in[2], in[3])

\* the mutable variables of main.c that outlive one handler call, and the
\* values each takes
ProgVars == {"gRcEnabled", "gRcActive", "lmb", "lastKeyboardReport"}

ProgValues(v) ==
    IF v = "lastKeyboardReport" THEN BOOLEAN \X BOOLEAN ELSE BOOLEAN

\* the forwarding loop with every valuation of these variables
ProgStates ==
    {[AppStart EXCEPT !.pc = "fwd", !.gRcEnabled = e, !.gRcActive = g,
                      !.lmb = l, !.lastKeyboardReport = k] :
        e \in BOOLEAN, g \in BOOLEAN, l \in BOOLEAN, k \in BOOLEAN \X BOOLEAN}

\* everything of a state but variable v
Mask(a, v) == [w \in (DOMAIN a) \ {v} |-> a[w]]

\* a handler writes v when some call changes it, and reads v when what some
\* call does to the rest of the state depends on the value of v
MouseWrites ==
    {v \in ProgVars : \E a \in ProgStates, in \in MouseIns :
        MouseStep(a, in)[v] # a[v]}

MouseReads ==
    {v \in ProgVars : \E a \in ProgStates, in \in MouseIns, x \in ProgValues(v) :
        Mask(MouseStep([a EXCEPT ![v] = x], in), v) # Mask(MouseStep(a, in), v)}

KbdWrites ==
    {v \in ProgVars : \E a \in ProgStates, in \in KbdIns :
        KbdStep(a, in)[v] # a[v]}

KbdReads ==
    {v \in ProgVars : \E a \in ProgStates, in \in KbdIns, x \in ProgValues(v) :
        Mask(KbdStep([a EXCEPT ![v] = x], in), v) # Mask(KbdStep(a, in), v)}

\* waitAllDevicesConnect returns: every channel reports a device
MainWait ==
    /\ app.pc = "wait"
    /\ app' = [app EXCEPT !.isConnected = [c \in Channels |-> TRUE], !.pc = "open"]
    /\ UNCHANGED <<driverVars, hid, kbd, rc, fn>>

\* openDeviceInput on channel c begins: ch375_hostUdevOpen zeroes usbDev
\* (and USBHID_open zeroes hidDev) whatever they point to, so the buffers of
\* a channel that is still open are dropped without k_free
OpenDropsBuffers(a, c) == a.opened[c]

\* openAllDeviceInputs: the channels are opened in order, the first failure
\* ends the call
MainOpenAll ==
    /\ app.pc = "open"
    /\ \E ok \in [Channels -> BOOLEAN] :
          LET a == [app EXCEPT !.leaked = @ \/ OpenDropsBuffers(app, 0)
                                            \/ (ok[0] /\ OpenDropsBuffers(app, 1))]
          IN  app' = IF ~ok[0] THEN [a EXCEPT !.pc = "wait"]
                     ELSE IF ~ok[1] THEN [a EXCEPT !.opened[0] = TRUE, !.pc = "wait"]
                     ELSE [a EXCEPT !.opened = [c \in Channels |-> TRUE],
                                    !.discPending = FALSE, !.pc = "patterns"]
    /\ UNCHANGED <<driverVars, hid, kbd, rc, fn>>

\* initInputPatterns
MainInitPatterns ==
    /\ app.pc = "patterns"
    /\ \E ok \in BOOLEAN :
          app' = IF ok THEN [app EXCEPT !.rcOpen = TRUE, !.gRcEnabled = FALSE,
                                        !.gRcActive = FALSE, !.pc = "sinkinit"]
                 ELSE [app EXCEPT !.pc = "wait"]
    /\ UNCHANGED <<driverVars, hid, kbd, rc, fn>>

\* usbhid_proxyInit and, on failure, recoilComp_close
MainSinkInit ==
    /\ app.pc = "sinkinit"
    /\ \E ok \in BOOLEAN :
          app' = IF ok THEN [app EXCEPT !.sinkUp = TRUE, !.pc = "ready"]
                 ELSE [app EXCEPT !.rcOpen = FALSE, !.pc = "wait"]
    /\ UNCHANGED <<driverVars, hid, kbd, rc, fn>>

\* the wait for usbhid_proxyIsReady: forwarding starts, or the time is up
\* and everything is closed
MainSinkReady ==
    /\ app.pc = "ready"
    /\ \E ready \in BOOLEAN :
          app' = IF ready THEN [app EXCEPT !.pc = "fwd", !.i = 0]
                 ELSE [closeAllDevices(app) EXCEPT !.sinkUp = FALSE,
                                                   !.rcOpen = FALSE, !.pc = "wait"]
    /\ UNCHANGED <<driverVars, hid, kbd, rc, fn>>

MainHandleMouse ==
    /\ app.pc = "fwd" /\ app.i = 0
    /\ \E in \in MouseIns :
          /\ MouseStep(app, in).ticks <= MaxComp
          /\ app' = MouseStep(app, in)
    /\ UNCHANGED <<driverVars, hid, kbd, rc, fn>>

MainHandleKeyboard ==
    /\ app.pc = "fwd" /\ app.i = 1
    /\ \E in \in KbdIns : app' = KbdStep(app, in)
    /\ UNCHANGED <<driverVars, hid, kbd, rc, fn>>

\* loopHandleDevices has returned: cleanup of the sink, recoilComp_close,
\* closeAllDevices
MainTeardown ==
    /\ app.pc = "teardown"
    /\ app' = [closeAllDevices(app) EXCEPT !.sinkUp = FALSE, !.rcOpen = FALSE,
                                            !.pc = "wait"]
    /\ UNCHANGED <<driverVars, hid, kbd, rc, fn>>

InitMain ==
    /\ DriverIdle
    /\ AppLayerIdle

NextMain ==
    \/ MainWait
    \/ MainOpenAll
    \/ MainInitPatterns
    \/ MainSinkInit
    \/ MainSinkReady
    \/ MainHandleMouse
    \/ MainHandleKeyboard
    \/ MainTeardown

SpecMain == InitMain /\ [][NextMain]_vars

(***************************************************************************)
(* Mouse report buffer and Report-ID detection: hid_parser.c, hid_mouse.c  *)
(* (SpecHid).  The report buffer holds two halves of report_len bytes;     *)
(* report_buffer_last_offset selects the half the next fetch writes.       *)
(***************************************************************************)
\* byte values of the reports explored: 0x01 and 0x20 (0 is the memset value)
HidBytes == {1, 32}

\* ways one usbhid_read can end
HidReadOutcomes ==
    {"ok", "nak", "disc", "retryFail", "tokenFail", "badStatus", "readFail"}

\* get_report_buffer: the offset into report_buffer the accessor returns
get_report_buffer(h, isLast) ==
    IF isLast THEN h.last
    ELSE IF h.last # 0 THEN 0 ELSE ReportLen

\* the report_len bytes an accessor's pointer addresses
USBHID_getReportBuffer(h, isLast) ==
    [i \in 1..ReportLen |-> h.buf[get_report_buffer(h, isLast) + i]]

\* usbhid_read: the return code of each outcome
usbhid_read(o) ==
    CASE o = "ok" -> "SUCCESS"
      [] o = "nak" -> "EAGAIN"
      [] o = "disc" -> "NO_DEV"
      [] OTHER -> "IO_ERROR"

NextLastOffsetAlways(ret, last) ==
    IF last # 0 THEN 0 ELSE ReportLen

NextLastOffsetNever(ret, last) ==
    last

\* USBHID_fetchReport: report_buffer_last_offset after the read
NextLastOffset(ret, last) ==
    IF ret = "SUCCESS"
    THEN IF last # 0 THEN 0 ELSE ReportLen
    ELSE last

\* USBHID_fetchReport on an allocated buffer: the read stores cnt bytes of
\* data at the half selected by report_buffer_last_offset (a read that fails
\* midway has stored the bytes before the failure), then the selector flips
\* on success
USBHID_fetchReport(h, o, data, cnt) ==
    LET wr == get_report_buffer(h, TRUE)
        ret == usbhid_read(o)
        stored == IF o \in {"ok", "readFail"} THEN cnt ELSE 0
        buf == [i \in DOMAIN h.buf |->
                   IF i > wr /\ i <= wr + stored THEN data[i - wr] ELSE h.buf[i]]
    IN  [h EXCEPT !.buf = buf,
                  !.last = NextLastOffset(ret, @),
                  !.ret = ret,
                  !.n = IF ret = "SUCCESS" THEN @ + 1 ELSE @,
                  !.kth = IF ret = "SUCCESS"
                          THEN [i \in 1..ReportLen |-> buf[wr + i]] ELSE @,
                  !.preLast = h.last,
                  !.preCur = USBHID_getReportBuffer(h, FALSE)]

\* hidMouse_FetchReport: the fetch, then the Report-ID detection
hidMouse_FetchReport(h, o, data, cnt) ==
    IF ~h.hid_dev
    THEN [h EXCEPT !.ret = "PARAM_INVALID", !.preLast = h.last,
                   !.preCur = USBHID_getReportBuffer(h, FALSE)]
    ELSE IF ~h.open
    THEN [h EXCEPT !.ret = "BUFFER_NOT_ALLOC", !.preLast = h.last,
                   !.preCur = USBHID_getReportBuffer(h, FALSE)]
    ELSE
    LET h1 == USBHID_fetchReport(h, o, data, cnt)
        cur == USBHID_getReportBuffer(h1, FALSE)
        h2 == IF h1.ret = "SUCCESS" /\ h1.declared /\ h1.idOff = 0
              THEN IF cur[1] = 1 /\ cur[2] <= 31
                   THEN [h1 EXCEPT !.idOff = 1,
                                   !.btnOff = @ + 1,
                                   !.orientOff = @ + 1,
                                   !.wheelOff = IF h1.has_wheel THEN @ + 1 ELSE @]
                   ELSE [h1 EXCEPT !.idOff = 0]
              ELSE h1
    IN  [h2 EXCEPT !.firstOff = IF h1.ret = "SUCCESS" /\ h1.n = 1
                                THEN h2.idOff ELSE @]

\* hidMouse_Open: the decoder is cleared, the descriptor parsed (button at
\* byte 0, X/Y from byte 1, an optional wheel after them, no bias for a
\* declared Report-ID) and the two halves allocated and zeroed
hidMouse_Open(decl, wheel, allocOk) ==
    [HidStart EXCEPT !.hid_dev = TRUE,
                     !.open = allocOk,
                     !.declared = decl,
                     !.has_wheel = wheel,
                     !.orientOff = 1,
                     !.wheelOff = IF wheel THEN 3 ELSE 0]

HidOpen ==
    /\ ~hid.open
    /\ \E decl \in BOOLEAN, wheel \in BOOLEAN, allocOk \in BOOLEAN :
           hid' = hidMouse_Open(decl, wheel, allocOk)
    /\ UNCHANGED <<driverVars, app, kbd, rc, fn>>

\* hidMouse_Close: the buffer is freed and the decoder cleared
HidClose ==
    /\ hid.hid_dev
    /\ hid' = HidStart
    /\ UNCHANGED <<driverVars, app, kbd, rc, fn>>

HidFetch ==
    /\ hid.n < MaxFetch
    /\ \E o \in HidReadOutcomes, data \in [1..ReportLen -> HidBytes],
          cnt \in 0..ReportLen :
           hid' = hidMouse_FetchReport(hid, o, data, cnt)
    /\ UNCHANGED <<driverVars, app, kbd, rc, fn>>

InitHid == DriverIdle /\ AppLayerIdle

NextHid ==
    \/ HidOpen
    \/ HidClose
    \/ HidFetch

SpecHid == InitHid /\ [][NextHid]_vars

(***************************************************************************)
(* Keyboard report editing: hid_keyboard.c (SpecKbd).  The report is the   *)
(* boot-protocol layout: modifier bitmask, reserved byte, six key codes.   *)
(***************************************************************************)
\* key codes explored: no key, and the letters a..g
KeyCodes == {0} \cup (4..10)

\* modifier numbers explored: LeftCtrl, RightGUI and the first invalid one
ModNums == {0, 7, 8}

\* get_report_buffer for the keyboard's device: index before the half
KbdHalf(k, isLast) ==
    IF isLast THEN k.last
    ELSE IF k.last # 0 THEN 0 ELSE HID_KBD_REPORT_SIZE

\* the key array (pKeysField[0..5]) of the half an accessor returns
KeysField(k, isLast) ==
    [i \in 1..HID_KBD_MAX_KEYS |->
        k.buf[KbdHalf(k, isLast) + HID_KBD_KEYS_OFFSET + i]]

\* the modifier byte (*pModField) of the half an accessor returns
ModField(k, isLast) ==
    k.buf[KbdHalf(k, isLast) + HID_KBD_MODIFIER_OFFSET + 1]

\* k.buf with the bytes of f stored from index off + 1 on
StoreAt(k, off, f) ==
    [i \in DOMAIN k.buf |->
        IF i - off \in DOMAIN f THEN f[i - off] ELSE k.buf[i]]

SetKeyPressOverwrite(keys, keyCode) ==
    LET hit == {i \in DOMAIN keys : keys[i] = 0 \/ keys[i] = keyCode}
    IN  IF hit = {} THEN [keys EXCEPT ![HID_KBD_MAX_KEYS] = U8(keyCode)]
        ELSE LET i == CHOOSE m \in hit : \A n \in hit : m <= n
             IN  IF keys[i] = 0 THEN [keys EXCEPT ![i] = U8(keyCode)] ELSE keys

\* hidKeyboard_SetKey, value # 0: the first slot that is empty or holds the
\* code ends the scan; an empty one receives the code
SetKeyPress(keys, keyCode) ==
    LET hit == {i \in DOMAIN keys : keys[i] = 0 \/ keys[i] = keyCode}
    IN  IF hit = {} THEN keys
        ELSE LET i == CHOOSE m \in hit : \A n \in hit : m <= n
             IN  IF keys[i] = 0 THEN [keys EXCEPT ![i] = U8(keyCode)] ELSE keys

\* hidKeyboard_SetKey, value = 0: the first slot holding the code is
\* removed and the slots after it move one place left
SetKeyRelease(keys, keyCode) ==
    LET hit == {i \in DOMAIN keys : keys[i] = keyCode}
    IN  IF hit = {} THEN keys
        ELSE LET i == CHOOSE m \in hit : \A n \in hit : m <= n
             IN  [j \in DOMAIN keys |->
                     IF j < i THEN keys[j]
                     ELSE IF j < HID_KBD_MAX_KEYS THEN keys[j + 1]
                     ELSE 0]

\* the keys held down, in press order, after a press or release of keyCode
HeldAfter(held, keyCode, value) ==
    IF value # 0
    THEN IF keyCode = 0 \/ Len(held) >= HID_KBD_MAX_KEYS
            \/ \E i \in DOMAIN held : held[i] = keyCode
         THEN held
         ELSE Append(held, keyCode)
    ELSE SelectSeq(held, LAMBDA c : c # keyCode)

\* hidKeyboard_SetKey
hidKeyboard_SetKey(k, keyCode, value, isLast) ==
    IF ~k.open THEN [k EXCEPT !.op = KbdStart.op, !.op.kind = "key"]
    ELSE LET keys == KeysField(k, isLast)
             new == IF value # 0 THEN SetKeyPress(keys, keyCode)
                    ELSE SetKeyRelease(keys, keyCode)
         IN  [k EXCEPT !.buf = StoreAt(k, KbdHalf(k, isLast) + HID_KBD_KEYS_OFFSET, new),
                       !.op = KbdStart.op, !.op.kind = "key",
                       !.held[isLast] = HeldAfter(@, keyCode, value),
                       !.ignored = /\ value # 0
                                   /\ \A i \in DOMAIN keys :
                                          keys[i] # 0 /\ keys[i] # keyCode]

\* bit n of byte b
BitOf(b, n) == (b \div (2 ^ n)) % 2

SetModifierByteToggle(b, modNum, value) ==
    IF BitOf(b, modNum) = 0 THEN b + 2 ^ modNum ELSE b - 2 ^ modNum

\* *pModField |= (1 << modNum) or *pModField &= ~(1 << modNum)
SetModifierByte(b, modNum, value) ==
    IF value # 0
    THEN IF BitOf(b, modNum) = 0 THEN b + 2 ^ modNum ELSE b
    ELSE IF BitOf(b, modNum) = 1 THEN b - 2 ^ modNum ELSE b

\* hidKeyboard_SetModifier
hidKeyboard_SetModifier(k, modNum, value, isLast) ==
    LET k1 == [k EXCEPT !.op = [kind |-> "mod", modNum |-> modNum,
                                value |-> value, isLast |-> isLast]]
    IN  IF modNum > 7 \/ ~k.open THEN k1
        ELSE [k1 EXCEPT !.buf = StoreAt(k, KbdHalf(k, isLast) + HID_KBD_MODIFIER_OFFSET,
                                   <<SetModifierByte(ModField(k, isLast), modNum, value)>>)]

\* hidKeyboard_Open: the fixed layout is set and the two halves allocated
\* and zeroed
KbdOpen ==
    /\ ~kbd.open
    /\ kbd' = [KbdStart EXCEPT !.open = TRUE]
    /\ UNCHANGED <<driverVars, app, hid, rc, fn>>

\* hidKeyboard_Close
KbdClose ==
    /\ kbd.open
    /\ kbd' = KbdStart
    /\ UNCHANGED <<driverVars, app, hid, rc, fn>>

\* one half is edited at a time: the other holds no key and no modifier
OtherHalfClear(isLast) ==
    /\ ModField(kbd, ~isLast) = 0
    /\ \A i \in 1..HID_KBD_MAX_KEYS : KeysField(kbd, ~isLast)[i] = 0

\* fewer than n keys are in the half's key array
FewerKeys(isLast, n) ==
    Cardinality({i \in 1..HID_KBD_MAX_KEYS : KeysField(kbd, isLast)[i] # 0}) < n

KbdSetKey ==
    /\ \E keyCode \in KeyCodes, value \in {0, 1}, isLast \in BOOLEAN :
           /\ OtherHalfClear(isLast)
           /\ value # 0 /\ ModField(kbd, isLast) # 0
                  => FewerKeys(isLast, MaxKeysWithMod)
           /\ kbd' = hidKeyboard_SetKey(kbd, keyCode, value, isLast)
    /\ UNCHANGED <<driverVars, app, hid, rc, fn>>

KbdSetModifier ==
    /\ \E modNum \in ModNums, value \in {0, 1}, isLast \in BOOLEAN :
           /\ OtherHalfClear(isLast)
           /\ FewerKeys(isLast, MaxKeysWithMod + 1)
           /\ kbd' = hidKeyboard_SetModifier(kbd, modNum, value, isLast)
    /\ UNCHANGED <<driverVars, app, hid, rc, fn>>

InitKbd == DriverIdle /\ AppLayerIdle

NextKbd ==
    \/ KbdOpen
    \/ KbdClose
    \/ KbdSetKey
    \/ KbdSetModifier

SpecKbd == InitKbd /\ [][NextKbd]_vars

(***************************************************************************)
(* Recoil pattern expansion: input_patterns.c (SpecRecoil).  The float     *)
(* values are kept as exact fractions: coefficient and sensitivity in      *)
(* tenths, the offsets of the presets in 1/RawScale; a scaled value is a   *)
(* numerator over a denominator that is the same for all groups.           *)
(***************************************************************************)
\* Soldier 76 pattern: {x_offset, y_offset, time_ms} per group
gRawPreset_OW2_Soldier76 ==
    <<<<0, 0, 111>>, <<0, -145500, 111>>, <<0, 47045, 111>>,
      <<0, -136901, 111>>, <<0, 44265, 111>>, <<0, -85873, 111>>,
      <<0, 41649, 111>>, <<0, -80798, 111>>, <<0, 39187, 111>>,
      <<0, -38012, 111>>, <<0, 36871, 111>>, <<0, -35765, 111>>,
      <<0, 34692, 111>>, <<0, -33651, 111>>, <<0, 32642, 111>>,
      <<0, -18998, 111>>, <<0, 18428, 111>>, <<0, 0, 111>>,
      <<0, 17339, 111>>, <<0, 0, 111>>, <<0, 0, 111>>,
      <<0, 0, 111>>, <<0, 0, 111>>, <<0, 0, 111>>,
      <<0, 0, 111>>, <<0, 0, 111>>, <<0, 0, 111>>,
      <<0, 0, 111>>, <<0, 0, 111>>, <<0, 0, 111>>>>

\* Cassidy pattern
gRawPreset_OW2_Cassidy ==
    <<<<0, 0, 50>>, <<0, -2020000, 150>>, <<0, 0, 300>>,
      <<0, 0, 50>>, <<0, -2020000, 150>>, <<0, 0, 300>>,
      <<0, 0, 50>>, <<0, -2020000, 150>>, <<0, 0, 300>>,
      <<0, 0, 50>>, <<0, -2020000, 150>>, <<0, 0, 300>>,
      <<0, 0, 50>>, <<0, -2020000, 150>>, <<0, 0, 300>>,
      <<0, 0, 50>>, <<0, -2020000, 150>>, <<0, 0, 300>>>>

\* sRecoilCollectArr: pData (<<>> for NULL) and firerounds_sampling,
\* round() of an integer quotient
sRecoilCollectArr ==
    [p \in 0..(RECOIL_COMP_PRESET_COUNT - 1) |->
        CASE p = 1 -> [pData |-> gRawPreset_OW2_Soldier76,
                       firerounds_sampling |-> 111 \div USB_REPORT_INTERVAL]
          [] p = 2 -> [pData |-> gRawPreset_OW2_Cassidy,
                       firerounds_sampling |-> 500 \div USB_REPORT_INTERVAL]
          [] OTHER -> [pData |-> <<>>, firerounds_sampling |-> 0]]

\* CLAMP(v, lo, hi)
CLAMP(v, lo, hi) == IF v < lo THEN lo ELSE IF v > hi THEN hi ELSE v

RoundfDown(n, d) == n \div d

\* roundf(n / d) for d > 0: the nearest integer, halves away from zero
Roundf(n, d) ==
    IF n >= 0 THEN (2 * n + d) \div (2 * d)
    ELSE -((2 * (-n) + d) \div (2 * d))

GroupValueAllScaled(g, ch, coeff, sens) ==
    IF ch = 3 THEN <<g[3] * coeff, sens>>
    ELSE <<g[ch] * coeff, sens * RawScale>>

\* the value of channel ch (1: x, 2: y, 3: timestamp) of group g, as
\* <<numerator, denominator>>: x and y are raw * coefficient / sensitivity,
\* the timestamp is the raw time
GroupValue(g, ch, coeff, sens) ==
    IF ch = 3 THEN <<g[3], 1>>
    ELSE <<g[ch] * coeff, sens * RawScale>>

\* the outer loop of recoilComp_cbGenerateDataLocked for one channel, from
\* group i on: per group the floor value sV of a tick and the residual fix;
\* sum is the sum of the ticks stored so far and sum0 the numerator of the
\* sum of the values so far
RECURSIVE GenerateGroups(_, _, _, _, _, _, _, _)
GenerateGroups(data, ch, coeff, sens, N, i, sum, sum0) ==
    IF i > Len(data) THEN <<>>
    ELSE LET v == GroupValue(data[i], ch, coeff, sens)
             sV == v[1] \div (v[2] * N)
             sumA == sum + sV * N
             sum0A == sum0 + v[1]
             fix == Roundf(sum0A - sumA * v[2], v[2])
             inc == IF fix > 0 THEN Min(fix, N) ELSE 0
         IN  <<[sV |-> sV, fix |-> fix]>>
                 \o GenerateGroups(data, ch, coeff, sens, N, i + 1, sumA + inc, sum0A)

TickValueNoFix(sV, fix, j) == sV

\* the inner loop: tick j (from 0) of a group is sV, one more while fix > 0
TickValue(sV, fix, j) == IF j < fix THEN sV + 1 ELSE sV

\* the array of one channel after the loops
TickArray(data, ch, coeff, sens, N) ==
    LET gs == GenerateGroups(data, ch, coeff, sens, N, 1, 0, 0)
    IN  [idx \in 1..(N * Len(data)) |->
            TickValue(gs[(idx - 1) \div N + 1].sV, gs[(idx - 1) \div N + 1].fix,
                      (idx - 1) % N)]

\* recoilComp_cbFreeLocked
recoilComp_cbFreeLocked(r) ==
    [r EXCEPT !.pX = <<>>, !.pY = <<>>, !.pTs = <<>>,
              !.arrLen = 0, !.arrIndex = 0, !.allocated = FALSE]

\* recoilComp_cbGenerateDataLocked; allocOk: the three k_malloc succeed
recoilComp_cbGenerateDataLocked(r, allocOk) ==
    IF r.pCollect = -1 THEN [r EXCEPT !.ret = "EINVAL"]
    ELSE LET pColl == sRecoilCollectArr[r.pCollect]
             N == pColl.firerounds_sampling
             r1 == [r EXCEPT !.coeff = CLAMP(@, RECOIL_COMP_COEFF_MIN, RECOIL_COMP_COEFF_MAX),
                             !.sens = CLAMP(@, RECOIL_COMP_SENS_MIN, RECOIL_COMP_SENS_MAX),
                             !.arrLen = N * Len(pColl.pData)]
         IN  IF pColl.pData = <<>> \/ N <= 0 THEN [r EXCEPT !.ret = "EINVAL"]
             ELSE IF ~allocOk THEN [r1 EXCEPT !.ret = "ENOMEM"]
             ELSE [r1 EXCEPT !.pX = TickArray(pColl.pData, 1, r1.coeff, r1.sens, N),
                             !.pY = TickArray(pColl.pData, 2, r1.coeff, r1.sens, N),
                             !.pTs = TickArray(pColl.pData, 3, r1.coeff, r1.sens, N),
                             !.allocated = TRUE,
                             !.ret = "OK"]

\* recoilComp_setPreset
recoilComp_setPreset(r, presetIndex, allocOk) ==
    IF presetIndex >= RECOIL_COMP_PRESET_COUNT \/ ~r.init
    THEN [r EXCEPT !.ret = "EINVAL"]
    ELSE LET g == recoilComp_cbGenerateDataLocked(
                      [recoilComp_cbFreeLocked(r) EXCEPT !.pCollect = presetIndex],
                      allocOk)
         IN  IF g.ret # "OK" THEN [g EXCEPT !.pCollect = -1]
             ELSE [g EXCEPT !.presetActive = TRUE]

\* the regeneration at the end of changeCoefficient and changeSensitivity
Regenerate(r, allocOk) ==
    IF r.presetActive
    THEN [recoilComp_cbGenerateDataLocked(recoilComp_cbFreeLocked(r), allocOk)
             EXCEPT !.ret = "OK"]
    ELSE [r EXCEPT !.ret = "OK"]

\* recoilComp_changeCoefficient
recoilComp_changeCoefficient(r, isAdd, allocOk) ==
    IF ~r.init THEN [r EXCEPT !.ret = "EINVAL"]
    ELSE Regenerate(
             [r EXCEPT !.coeff = CLAMP(IF isAdd THEN @ + RECOIL_COMP_COEFF_STEP
                                       ELSE @ - RECOIL_COMP_COEFF_STEP,
                                       RECOIL_COMP_COEFF_MIN, RECOIL_COMP_COEFF_MAX)],
             allocOk)

\* recoilComp_changeSensitivity
recoilComp_changeSensitivity(r, isAdd, allocOk) ==
    IF ~r.init THEN [r EXCEPT !.ret = "EINVAL"]
    ELSE Regenerate(
             [r EXCEPT !.sens = CLAMP(IF isAdd THEN @ + RECOIL_COMP_SENS_STEP
                                      ELSE @ - RECOIL_COMP_SENS_STEP,
                                      RECOIL_COMP_SENS_MIN, RECOIL_COMP_SENS_MAX)],
             allocOk)

\* recoilComp_open: the context is allocated and set to the defaults
RcOpen ==
    /\ ~rc.init
    /\ \E allocOk \in BOOLEAN :
           rc' = IF allocOk
                 THEN [RcStart EXCEPT !.init = TRUE,
                                      !.coeff = RECOIL_COMP_DEFAULT_COEFF,
                                      !.sens = RECOIL_COMP_DEFAULT_SENS,
                                      !.ret = "OK"]
                 ELSE [RcStart EXCEPT !.ret = "ENOMEM"]
    /\ UNCHANGED <<driverVars, app, hid, kbd, fn>>

\* recoilComp_close
RcClose ==
    /\ rc.init
    /\ rc' = RcStart
    /\ UNCHANGED <<driverVars, app, hid, kbd, fn>>

RcSetPreset ==
    /\ \E presetIndex \in 0..RECOIL_COMP_PRESET_COUNT, allocOk \in BOOLEAN :
           rc' = recoilComp_setPreset(rc, presetIndex, allocOk)
    /\ UNCHANGED <<driverVars, app, hid, kbd, fn>>

RcChangeCoefficient ==
    /\ \E isAdd \in BOOLEAN, allocOk \in BOOLEAN :
           /\ isAdd => rc.coeff < RECOIL_COMP_DEFAULT_COEFF + MaxCoeffSteps
           /\ rc' = recoilComp_changeCoefficient(rc, isAdd, allocOk)
    /\ UNCHANGED <<driverVars, app, hid, kbd, fn>>

RcChangeSensitivity ==
    /\ \E isAdd \in BOOLEAN, allocOk \in BOOLEAN :
           /\ isAdd => rc.sens < RECOIL_COMP_DEFAULT_SENS + MaxSensSteps
           /\ ~isAdd /\ rc.init => rc.sens > RECOIL_COMP_DEFAULT_SENS - MaxSensSteps
           /\ rc' = recoilComp_changeSensitivity(rc, isAdd, allocOk)
    /\ UNCHANGED <<driverVars, app, hid, kbd, fn>>

InitRecoil == DriverIdle /\ AppLayerIdle

NextRecoil ==
    \/ RcOpen
    \/ RcClose
    \/ RcSetPreset
    \/ RcChangeCoefficient
    \/ RcChangeSensitivity

SpecRecoil == InitRecoil /\ [][NextRecoil]_vars

(***************************************************************************)
(* HID item walker: HID_fetchItem of hid_parser.c, applied repeatedly from *)
(* the start of a buffer as its callers do (SpecItem).  Cursors are byte   *)
(* offsets from the start of the buffer, -1 stands for NULL.               *)
(***************************************************************************)
\* bytes of the buffers explored: short-item prefixes with size codes 0..3,
\* which are also the lengths 0..3, and a long-item prefix (tag 15)
ItemBytes == {0, 1, 2, 3, 254}

\* the buffers explored
ItemBuffers == UNION {[1..n -> ItemBytes] : n \in 0..MaxItemLen}

ShortNeedIsCode(code) == code

\* the bytes the check of a short item of size code 0..3 asks for
ShortNeed(code) == IF code = 3 THEN 4 ELSE code

\* HID_fetchItem(buf + start, buf + Len(buf), &item): next is the returned
\* cursor, hi the offset after the last byte read or exposed in the item
HID_fetchItem(buf, start) ==
    LET end == Len(buf)
        none(hi) == [next |-> -1, hi |-> hi, size |-> 0]
    IN  IF end - start <= 0 THEN none(start)
        ELSE LET firstByte == buf[start + 1]
                 p1 == start + 1
                 tag == (firstByte \div 16) % 16
                 code == firstByte % 4
             IN  IF tag = HID_ITEM_TAG_LONG
                 THEN IF end - p1 < 2 THEN none(p1)
                      ELSE LET size == buf[p1 + 1]
                               p3 == p1 + 2
                           IN  IF end - p3 < size THEN none(p3)
                               ELSE [next |-> p3 + size, hi |-> p3 + size,
                                     size |-> size]
                 ELSE IF end - p1 < ShortNeed(code) THEN none(p1)
                 ELSE LET len == IF code = 3 THEN 4 ELSE code
                      IN  [next |-> p1 + len, hi |-> p1 + len, size |-> len]

\* a caller starts a walk over a buffer
ItemBegin ==
    /\ fn = FnIdle
    /\ \E buf \in ItemBuffers :
           fn' = [kind |-> "item", buf |-> buf, cur |-> 0, done |-> FALSE,
                  \* history, for the properties:
                  items |-> 0,   \* items fetched
                  hi |-> 0,      \* offset after the last byte read
                  adv |-> 1]     \* smallest advance of a fetched item
    /\ UNCHANGED <<driverVars, app, hid, kbd, rc>>

\* one call of HID_fetchItem at the cursor; NULL ends the walk
ItemFetch ==
    /\ fn.kind = "item" /\ ~fn.done
    /\ LET r == HID_fetchItem(fn.buf, fn.cur)
       IN  fn' = IF r.next = -1
                 THEN [fn EXCEPT !.done = TRUE, !.hi = IF r.hi > @ THEN r.hi ELSE @]
                 ELSE [fn EXCEPT !.cur = r.next,
                                 !.items = @ + 1,
                                 !.hi = IF r.hi > @ THEN r.hi ELSE @,
                                 !.adv = Min(@, r.next - fn.cur)]
    /\ UNCHANGED <<driverVars, app, hid, kbd, rc>>

\* the caller drops the buffer
ItemEnd ==
    /\ fn.kind = "item" /\ fn.done
    /\ fn' = FnIdle
    /\ UNCHANGED <<driverVars, app, hid, kbd, rc>>

InitItem == DriverIdle /\ AppLayerIdle

NextItem ==
    \/ ItemBegin
    \/ ItemFetch
    \/ ItemEnd

SpecItem == InitItem /\ [][NextItem]_vars

(***************************************************************************)
(* ch375_waitInt on its own (SpecWait).  Time is counted in milliseconds   *)
(* since `start`; the unsigned difference k_uptime_get_32() - start is the *)
(* elapsed time whatever the counter's value.  A status read is taken by   *)
(* its result: the link fails, or the chip answers one status byte.        *)
(***************************************************************************)
\* status bytes a read can deliver, by name
WaitStatuses ==
    {"IntSuccess", "IntConnect", "IntDisconnect", "IntBufOver", "IntUsbReady",
     "Nak", "Stall", "Ack", "Other"}

\* the completion test without the NAK answer
IsCompletionStatusNoNak(status) ==
    status \in {"IntSuccess", "IntConnect", "IntDisconnect", "IntUsbReady",
                "Stall", "Ack"}

\* the completion test of ch375_waitInt, the same before and inside the loop
IsCompletionStatus(status) ==
    \/ status = "IntSuccess" \/ status = "IntConnect"
    \/ status = "IntDisconnect" \/ status = "IntUsbReady"
    \/ status = "Nak" \/ status = "Stall" \/ status = "Ack"

\* ch375_getStatus: "fail" when the link fails, else the status byte
WaitReads == {"fail"} \cup WaitStatuses

WaitBegin ==
    /\ fn = FnIdle
    /\ \E t \in 0..MaxBudget :
          fn' = [kind |-> "wait", pc |-> "first", timeout_ms |-> t,
                 elapsed |-> 0, still |-> 0, ret |-> "none",
                 \* history, for the properties:
                 log |-> <<>>,     \* results of the reads before the time was up
                 late |-> "none"]  \* result of the read after it
    /\ UNCHANGED <<driverVars, app, hid, kbd, rc>>

\* the initial status read
WaitFirstRead ==
    /\ fn.kind = "wait" /\ fn.pc = "first"
    /\ \E r \in WaitReads :
          fn' = IF r # "fail" /\ IsCompletionStatus(r)
                THEN [fn EXCEPT !.pc = "done", !.ret = "SUCCESS",
                                !.log = Append(@, r)]
                ELSE [fn EXCEPT !.pc = "loop", !.log = Append(@, r)]
    /\ UNCHANGED <<driverVars, app, hid, kbd, rc>>

\* one pass of the polling loop: the time is not up, a status read, and the
\* pause, during which d milliseconds go by
WaitPoll ==
    /\ fn.kind = "wait" /\ fn.pc = "loop"
    /\ fn.elapsed < fn.timeout_ms
    /\ \E r \in WaitReads, d \in {0, 1} :
          /\ d = 0 => fn.still < MaxStill
          /\ fn' = IF r # "fail" /\ IsCompletionStatus(r)
                   THEN [fn EXCEPT !.pc = "done", !.ret = "SUCCESS",
                                   !.log = Append(@, r)]
                   ELSE [fn EXCEPT !.elapsed = @ + d,
                                   !.still = IF d = 0 THEN @ + 1 ELSE 0,
                                   !.log = Append(@, r)]
    /\ UNCHANGED <<driverVars, app, hid, kbd, rc>>

\* the time is up: one more status read for the log message, then TIMEOUT
WaitTimeout ==
    /\ fn.kind = "wait" /\ fn.pc = "loop"
    /\ fn.elapsed >= fn.timeout_ms
    /\ \E r \in WaitReads :
          fn' = [fn EXCEPT !.pc = "done", !.ret = "TIMEOUT", !.late = r]
    /\ UNCHANGED <<driverVars, app, hid, kbd, rc>>

WaitReturn ==
    /\ fn.kind = "wait" /\ fn.pc = "done"
    /\ fn' = FnIdle
    /\ UNCHANGED <<driverVars, app, hid, kbd, rc>>

InitWait == DriverIdle /\ AppLayerIdle

NextWait ==
    \/ WaitBegin
    \/ WaitFirstRead
    \/ WaitPoll
    \/ WaitTimeout
    \/ WaitReturn

SpecWait == InitWait /\ [][NextWait]_vars

(***************************************************************************)
(* ch375_setBaudrate on its own (SpecBaud).  The chip keeps the divisor    *)
(* pair of the last complete SET_BAUDRATE it was sent.                     *)
(***************************************************************************)
\* the case labels of the switch, in source order
BaudCases == <<9600, 19200, 57600, 115200, 460800, 921600, 100000, 1000000, 2000000>>

\* the rates a call is made with: the case labels and two other values
BaudArgs == {BaudCases[k] : k \in 1..Len(BaudCases)} \cup {0, 38400}

\* data1, data2 as assigned under each case label
BaudEntry(baudrate) ==
    CASE baudrate = 9600 -> <<2, 178>>
      [] baudrate = 19200 -> <<2, 217>>
      [] baudrate = 57600 -> <<3, 152>>
      [] baudrate = 115200 -> <<3, 204>>
      [] baudrate = 460800 -> <<3, 243>>
      [] baudrate = 921600 -> <<7, 243>>
      [] baudrate = 100000 -> <<3, 196>>
      [] baudrate = 1000000 -> <<3, 250>>
      [] baudrate = 2000000 -> <<3, 253>>

\* whether the statements under the k-th case label end with a break
BaudCaseBreaks(k) == BaudCases[k] # 921600

\* the switch entered at the k-th label: the assignments of that label, and
\* of the labels after it for as long as no break is met
RECURSIVE BaudRunFrom(_)
BaudRunFrom(k) ==
    IF BaudCaseBreaks(k) \/ k = Len(BaudCases) THEN BaudEntry(BaudCases[k])
    ELSE BaudRunFrom(k + 1)

\* data1, data2 after the switch; <<>> for the default label
BaudSwitch(baudrate) ==
    IF \E k \in 1..Len(BaudCases) : BaudCases[k] = baudrate
    THEN BaudRunFrom(CHOOSE k \in 1..Len(BaudCases) : BaudCases[k] = baudrate)
    ELSE <<>>

\* no call running; div is the divisor pair the chip holds
BaudAt(div) ==
    [kind |-> "baud", pc |-> "idle", baudrate |-> 0, data |-> <<>>,
     cmds |-> 0, sent |-> <<>>, ret |-> "none", div |-> div]

\* entry of ch375_setBaudrate and its switch
BaudCall ==
    /\ fn = FnIdle \/ (fn.kind = "baud" /\ fn.pc = "idle")
    /\ \E b \in BaudArgs :
          LET f == BaudAt(IF fn = FnIdle THEN <<>> ELSE fn.div)
              d == BaudSwitch(b)
          IN  fn' = IF d = <<>>
                    THEN [f EXCEPT !.pc = "done", !.baudrate = b,
                                   !.ret = "PARAM_INVALID"]
                    ELSE [f EXCEPT !.pc = "cmd", !.baudrate = b, !.data = d]
    /\ UNCHANGED <<driverVars, app, hid, kbd, rc>>

\* ch375_writeCmd(CH375_CMD_SET_BAUDRATE) under the mutex
BaudWriteCmd ==
    /\ fn.kind = "baud" /\ fn.pc = "cmd"
    /\ \E ok \in BOOLEAN :
          fn' = IF ok THEN [fn EXCEPT !.pc = "data", !.cmds = @ + 1]
                ELSE [fn EXCEPT !.pc = "done", !.ret = "WRITE_CMD_FAILED"]
    /\ UNCHANGED <<driverVars, app, hid, kbd, rc>>

\* ch375_writeData(data1), then ch375_writeData(data2)
BaudWriteData ==
    /\ fn.kind = "baud" /\ fn.pc = "data"
    /\ \E ok \in BOOLEAN :
          LET s == Append(fn.sent, fn.data[Len(fn.sent) + 1])
          IN  fn' = IF ~ok THEN [fn EXCEPT !.pc = "done", !.ret = "WRITE_CMD_FAILED"]
                    ELSE IF Len(s) < 2 THEN [fn EXCEPT !.sent = s]
                    ELSE [fn EXCEPT !.sent = s, !.div = s, !.pc = "done",
                                    !.ret = "SUCCESS"]
    /\ UNCHANGED <<driverVars, app, hid, kbd, rc>>

BaudReturn ==
    /\ fn.kind = "baud" /\ fn.pc = "done"
    /\ fn' = BaudAt(fn.div)
    /\ UNCHANGED <<driverVars, app, hid, kbd, rc>>

InitBaud == DriverIdle /\ AppLayerIdle

NextBaud ==
    \/ BaudCall
    \/ BaudWriteCmd
    \/ BaudWriteData
    \/ BaudReturn

SpecBaud == InitBaud /\ [][NextBaud]_vars

(***************************************************************************)
(* hidOutput_buildMouseReport on its own (SpecOut).  The axis values are   *)
(* the int32 results of hidMouse_GetOrientation, whose range follows the   *)
(* byte size of the orientation field (1, 2 or 4).                         *)
(***************************************************************************)
\* axis values explored
AxisValues ==
    {-70000, -32769, -32768, -129, -128, -1, 0, 1, 127, 128, 32767, 32768, 70000}

\* the values a field of `size` bytes can hold, read sign-extended
AxisRange(size) ==
    IF size = 1 THEN {v \in AxisValues : v >= -128 /\ v <= 127}
    ELSE IF size = 2 THEN {v \in AxisValues : v >= -32768 /\ v <= 32767}
    ELSE AxisValues

\* the cast (uint16_t)value of an int32
ToU16(value) == value % 65536

\* sys_put_le16((uint16_t)value, dst): low byte, high byte
PutAxis(value) == <<ToU16(value) % 256, ToU16(value) \div 256>>

\* the wheel byte: clamp to int8_t, then (uint8_t)(int8_t)
PutWheel(value) ==
    LET c == IF value > 127 THEN 127 ELSE IF value < -128 THEN -128 ELSE value
    IN  c % 256

\* hidOutput_buildMouseReport.  skip: the report carries another Report ID;
\* getOk: the accessors succeed; buttons: the button byte
hidOutput_buildMouseReport(skip, getOk, buttons, x, y, has_wheel, wheel) ==
    IF skip THEN [ret |-> "EAGAIN", report |-> <<>>]
    ELSE IF ~getOk THEN [ret |-> "EIO", report |-> <<>>]
    ELSE [ret |-> "OK",
          report |-> <<buttons>> \o PutAxis(x) \o PutAxis(y)
                     \o <<PutWheel(IF has_wheel THEN wheel ELSE 0)>>]

OutBuild ==
    /\ fn = FnIdle
    /\ \E size \in {1, 2, 4}, skip \in BOOLEAN, getOk \in BOOLEAN,
          has_wheel \in BOOLEAN :
       \E x \in AxisRange(size), y \in AxisRange(size), wheel \in AxisRange(2) :
          LET r == hidOutput_buildMouseReport(skip, getOk, 1, x, y, has_wheel, wheel)
          IN  fn' = [kind |-> "out", size |-> size, x |-> x, y |-> y,
                     ret |-> r.ret, report |-> r.report]
    /\ UNCHANGED <<driverVars, app, hid, kbd, rc>>

OutReturn ==
    /\ fn.kind = "out"
    /\ fn' = FnIdle
    /\ UNCHANGED <<driverVars, app, hid, kbd, rc>>

InitOut == DriverIdle /\ AppLayerIdle

NextOut ==
    \/ OutBuild
    \/ OutReturn

SpecOut == InitOut /\ [][NextOut]_vars

(***************************************************************************)
(* Configuration-descriptor walk byte by byte: parse_config_descriptor of  *)
(* ch375_host.c run on its own over a buffer of raw_conf_desc_len bytes    *)
(* (SpecWalk).  Positions are byte offsets from raw_conf_desc.             *)
(***************************************************************************)
\* bytes of the buffers explored: the lengths 0..5, which are also
\* descriptor types, INTERFACE (4) and ENDPOINT (5) among them
WalkBytes == 0..5

WalkBuffers == UNION {[1..n -> WalkBytes] : n \in 0..MaxWalkLen}

\* wMaxPacketSize values an ENDPOINT descriptor is read with
WalkEpSizes == {0, 4}

\* the switch on bDescriptorType
DescType(bDescriptorType) ==
    IF bDescriptorType = 4 THEN "INTERFACE"
    ELSE IF bDescriptorType = 5 THEN "ENDPOINT"
    ELSE "OTHER"

\* one pass of the while loop at offset pos: the loop test on the two
\* header bytes, the two length tests, the dispatch and the advance.
\* ret is "go" when the loop goes round again
WalkIter(u, buf, pos, clob, wMaxPacketSize) ==
    IF pos + 2 > Len(buf) THEN [u |-> u, pos |-> pos, ret |-> "SUCCESS"]
    ELSE LET bLength == buf[pos + 1]
             type == DescType(buf[pos + 2])
         IN  IF bLength = 0 THEN [u |-> u, pos |-> pos, ret |-> "ERROR"]
             ELSE IF pos + bLength > Len(buf)
             THEN [u |-> u, pos |-> pos, ret |-> "ERROR"]
             ELSE [u |-> IF type = "INTERFACE" THEN ParseInterface(u)
                         ELSE IF type = "ENDPOINT"
                         THEN ParseEndpoint(u, clob, wMaxPacketSize)
                         ELSE u,
                   pos |-> pos + bLength, ret |-> "go"]

\* entry of parse_config_descriptor on the buffer open has just filled
WalkBegin ==
    /\ fn = FnIdle
    /\ \E buf \in WalkBuffers :
          /\ udev' = [ZeroDev EXCEPT !.ctx = "ctx", !.raw_conf_desc = "buf",
                                     !.raw_conf_desc_len = Len(buf)]
          /\ fn' = [kind |-> "walk", buf |-> buf, pos |-> 0,
                    pc |-> IF Len(buf) = 0 THEN "done" ELSE "loop",
                    ret |-> IF Len(buf) = 0 THEN "ERROR" ELSE "none",
                    \* history, for the properties:
                    steps |-> 0,     \* passes of the loop
                    unk |-> FALSE]   \* an item of another type changed udev
    /\ heap' = [HeapInit EXCEPT !.state = "allocated"]
    /\ UNCHANGED <<ct, bk, cs, chipVars, sink, enum, app, hid, kbd, rc>>

WalkStep ==
    /\ fn.kind = "walk" /\ fn.pc = "loop"
    /\ \E clob \in OobTargets, w \in WalkEpSizes :
          LET r == WalkIter(udev, fn.buf, fn.pos, clob, w)
          IN  /\ udev' = r.u
              /\ fn' = [fn EXCEPT
                          !.pos = r.pos,
                          !.pc = IF r.ret = "go" THEN "loop" ELSE "done",
                          !.ret = IF r.ret = "go" THEN @ ELSE r.ret,
                          !.steps = @ + 1,
                          !.unk = @ \/ (/\ r.ret = "go"
                                        /\ DescType(fn.buf[fn.pos + 2]) = "OTHER"
                                        /\ r.u # udev)]
    /\ UNCHANGED <<heap, ct, bk, cs, chipVars, sink, enum, app, hid, kbd, rc>>

\* open goes on with the result; the struct is closed afterwards
WalkReturn ==
    /\ fn.kind = "walk" /\ fn.pc = "done"
    /\ fn' = FnIdle
    /\ udev' = OpenFail(udev, heap).u
    /\ heap' = HeapInit
    /\ UNCHANGED <<ct, bk, cs, chipVars, sink, enum, app, hid, kbd, rc>>

InitWalk == DriverIdle /\ AppLayerIdle

NextWalk ==
    \/ WalkBegin
    \/ WalkStep
    \/ WalkReturn

SpecWalk == InitWalk /\ [][NextWalk]_vars

(***************************************************************************)
(* Recoil sequencer: recoilComp_restart and recoilComp_getNextData of      *)
(* input_patterns.c against the millisecond clock k_uptime_get_32          *)
(* (SpecSeq).  The clock readings explored lie far below the 32-bit wrap,  *)
(* so times are plain natural numbers.                                     *)
(***************************************************************************)
\* presets loaded: none (index 0 has no data) and OW2_Soldier76
SeqPresets == {0, 1}

\* recoilComp_cbTimeElapsed, for now and start on the same side of the wrap
recoilComp_cbTimeElapsed(start, now) == now - start

\* recoilComp_restart at clock reading now
recoilComp_restart(r, now) ==
    IF ~r.init \/ ~r.presetActive THEN r
    ELSE [r EXCEPT !.lastTickMs = now, !.arrIndex = 0]

\* recoilComp_getNextData with the tick taken as due at once and the time
\* of the last tick set to the clock reading
recoilComp_getNextDataSnapsToNow(r, now) ==
    IF ~r.init \/ ~r.allocated THEN [r |-> r, out |-> "EINVAL", x |-> 0, y |-> 0]
    ELSE IF r.arrIndex >= r.arrLen THEN [r |-> r, out |-> "NONE", x |-> 0, y |-> 0]
    ELSE LET i == r.arrIndex + 1
         IN  IF recoilComp_cbTimeElapsed(r.lastTickMs, now) >= r.pTs[i]
             THEN [r |-> [r EXCEPT !.lastTickMs = now, !.arrIndex = @ + 1],
                   out |-> "OK", x |-> r.pX[i], y |-> -1 * r.pY[i]]
             ELSE [r |-> r, out |-> "NONE", x |-> 0, y |-> 0]

\* recoilComp_getNextData at clock reading now: the context afterwards, the
\* return code and the data written to pData (0, 0 when nothing is written).
\* A negative pTs entry is compared as a 32-bit unsigned number, which no
\* elapsed time explored reaches
recoilComp_getNextData(r, now) ==
    IF ~r.init \/ ~r.allocated THEN [r |-> r, out |-> "EINVAL", x |-> 0, y |-> 0]
    ELSE IF r.arrIndex >= r.arrLen THEN [r |-> r, out |-> "NONE", x |-> 0, y |-> 0]
    ELSE LET i == r.arrIndex + 1
         IN  IF r.pTs[i] >= 0
                /\ recoilComp_cbTimeElapsed(r.lastTickMs, now) >= r.pTs[i]
             THEN [r |-> [r EXCEPT !.lastTickMs = @ + r.pTs[i], !.arrIndex = @ + 1],
                   out |-> "OK", x |-> r.pX[i], y |-> -1 * r.pY[i]]
             ELSE [r |-> r, out |-> "NONE", x |-> 0, y |-> 0]

\* the clock and the latest call of getNextData
SeqStart ==
    [kind |-> "seq", now |-> 0, flip |-> FALSE, out |-> "none", x |-> 0, y |-> 0,
     \* history, for the properties:
     hi |-> -1,         \* highest index emitted since the index was last reset
     again |-> FALSE]   \* an index was emitted that is not above hi

\* clock readings explored for the next call: the current one and, while a
\* tick is pending, the three around the time it falls due; one millisecond
\* later while nothing is pending
NowChoices(r, now) ==
    IF r.init /\ r.allocated /\ r.arrIndex < r.arrLen
    THEN LET due == r.lastTickMs + r.pTs[r.arrIndex + 1]
         IN  {now} \cup {t \in {due - 1, due, due + 1} : t >= now}
    ELSE {now} \cup {t \in {now + 1} : t <= MaxEarly}

\* recoilComp_setPreset; a load resets the index
SeqSetPreset ==
    /\ fn.now <= MaxEarly
    /\ \E presetIndex \in SeqPresets, allocOk \in BOOLEAN :
           rc' = recoilComp_setPreset(rc, presetIndex, allocOk)
    /\ fn' = [fn EXCEPT !.hi = -1]
    /\ UNCHANGED <<driverVars, app, hid, kbd>>

SeqRestart ==
    /\ fn.now <= MaxEarly
    /\ rc' = recoilComp_restart(rc, fn.now)
    /\ fn' = [fn EXCEPT !.hi = IF rc.init /\ rc.presetActive THEN -1 ELSE @]
    /\ UNCHANGED <<driverVars, app, hid, kbd>>

SeqNext ==
    /\ \E now \in NowChoices(rc, fn.now) :
          LET r == recoilComp_getNextData(rc, now)
          IN  /\ rc' = r.r
              /\ fn' = [fn EXCEPT
                          !.now = now, !.flip = ~@,
                          !.out = r.out, !.x = r.x, !.y = r.y,
                          !.hi = IF r.out = "OK" /\ rc.arrIndex > @
                                 THEN rc.arrIndex ELSE @,
                          !.again = @ \/ (r.out = "OK" /\ rc.arrIndex <= fn.hi)]
    /\ UNCHANGED <<driverVars, app, hid, kbd>>

InitSeq ==
    /\ DriverIdle
    /\ app = AppStart /\ hid = HidStart /\ kbd = KbdStart
    /\ rc = RcStart
    /\ fn = SeqStart

NextSeq ==
    \/ RcOpen
    \/ RcClose
    \/ SeqSetPreset
    \/ SeqRestart
    \/ SeqNext

SpecSeq == InitSeq /\ [][NextSeq]_vars

(***************************************************************************)
(* Properties of the transfers (SpecXfer)                                  *)
(***************************************************************************)
\* the buffer contents when every accepted IN packet is stored whole, one
\* after the other: segments <<offset, packet index, length>>
RECURSIVE ConcatSegs(_, _, _)
ConcatSegs(acc, i, off) ==
    IF i > Len(acc) THEN <<>>
    ELSE IF acc[i] = 0 THEN ConcatSegs(acc, i + 1, off)
    ELSE <<<<off, i, acc[i]>>>> \o ConcatSegs(acc, i + 1, off + acc[i])

CtInSuccess ==
    ct.pc = "done" /\ ct.dirIn /\ ct.wLength > 0 /\ ct.ret = "SUCCESS"

\* C1: a control transfer with an IN data stage that returns success leaves
\* in the caller's buffer the payloads of the accepted IN packets,
\* concatenated in arrival order, and reports the sum of their lengths
C1_InBufferIsConcatenation ==
    CtInSuccess =>
        /\ ct.actual <= ct.wLength
        /\ ct.actual = SumSeq(ct.acc)
        /\ ct.buf = ConcatSegs(ct.acc, 1, 0)

\* C2: every data-stage token carries DATA1 flipped once per packet
\* accepted before it (so the first carries DATA1 and a NAK flips nothing)
C2_ToggleFollowsAcceptedPackets ==
    (ct.pc # "idle" /\ ct.tokSeen) => ct.tokTog = ~ct.tokAccOdd

\* C3: in a bulk/interrupt transfer a NAK leaves the endpoint toggle alone;
\* with budget left it costs one unit of the timeout and one 1 ms sleep and
\* the loop retries; with the budget at 0 the call returns Timeout with the
\* bytes transferred so far, and when every token was answered NAK that is
\* after timeout + 1 tokens, with actual length 0 and the toggle the call
\* started with
C3_BulkNakTimeout ==
    [][(bk.pc = "loop" /\ bk'.nakCount = bk.nakCount + 1) =>
        /\ EpAt(udev', bk.slot).data_toggle = EpAt(udev, bk.slot).data_toggle
        /\ bk'.lastTog = EpAt(udev, bk.slot).data_toggle
        /\ IF bk.timeout = 0
           THEN /\ bk'.pc = "done" /\ bk'.ret = "TIMEOUT"
                /\ bk'.actual = bk.offset
                /\ bk'.sleeps = bk.sleeps
                /\ bk'.onlyNak =>
                      /\ bk'.tokens = bk.timeout0 + 1
                      /\ bk'.actual = 0
                      /\ EpAt(udev', bk.slot).data_toggle = bk.toggle0
           ELSE /\ bk'.pc = "loop"
                /\ bk'.timeout = bk.timeout - 1
                /\ bk'.sleeps = bk.sleeps + 1]_vars

C3_Witness ==
    /\ bk.pc = "done" /\ bk.ret = "TIMEOUT" /\ bk.onlyNak
    /\ bk.timeout0 > 0 /\ bk.tokens = bk.timeout0 + 1
    /\ bk.sleeps = bk.timeout0 /\ bk.actual = 0

\* C4: when clear stall returns success for a non-zero endpoint address the
\* endpoint's toggle is DATA0
C4_ClearStallResetsToggle ==
    (cs.pc = "done" /\ cs.ret = "SUCCESS" /\ cs.ep # 0) =>
        EpAt(udev, GetEndpoint(udev, cs.ep)).data_toggle = FALSE

C4_Witness ==
    /\ cs.pc = "done" /\ cs.ret = "SUCCESS" /\ cs.ep # 0 /\ cs.toggleBefore
    /\ EpAt(udev, GetEndpoint(udev, cs.ep)).data_toggle = FALSE

(***************************************************************************)
(* Properties of the chip command layer (SpecChip)                         *)
(***************************************************************************)
\* C5 as stated: the link bytes of one chip operation, from its first to
\* its last, are never interleaved with bytes of another thread's
\* operation, and every one of them goes out with the mutex held
C5_OperationSequenceAtomic ==
    /\ ~io.opCut
    /\ ~io.bare

\* C5, amended: every command/response pair (a command byte with the data
\* bytes and response reads that belong to it) goes over the link with the
\* mutex held by its thread and with no byte of another thread inside it
C5_PairAtomic ==
    /\ ~io.pairCut
    /\ ~io.bare

\* a thread in the middle of an operation waits for the mutex while the
\* other thread has a pair open on the link
C5_Witness ==
    \E t \in Threads, u \in Threads :
        /\ t # u
        /\ io.last = t /\ AtKind(t, {"data", "read"})
        /\ AtKind(u, {"lock"}) /\ th[u].opOpen

\* C6: no chip operation sleeps while it holds the mutex, and one hold of
\* the mutex covers a single command/response pair and ends with it
C6_NoSleepUnderMutex ==
    \A t \in Threads :
        /\ AtKind(t, {"sleep"}) => mtx.owner # t
        /\ th[t].holdCmds <= 1
        /\ ~Running(t) => mtx.owner # t

(***************************************************************************)
(* Properties of the output sink (SpecSink)                                *)
(***************************************************************************)
\* C7: each endpoint semaphore starts available; a send that is not granted
\* the semaphore returns Busy without writing; after a successful write the
\* semaphore stays taken until the ready callback (or cleanup), so no write
\* is issued on an endpoint while one is in flight there
C7_SemaphoreGuardsEndpoint ==
    /\ ~sink.used => \A i \in Ifaces : sink.sem[i] = 1
    /\ (sink.pc = "done" /\ sink.ret = "EBUSY") => ~sink.wrote
    /\ \A i \in Ifaces : sink.inflight[i] => sink.sem[i] = 0
    /\ ~sink.overlap

\* a send is refused Busy on an endpoint whose last write is still in flight
C7_Witness ==
    /\ sink.pc = "done" /\ sink.ret = "EBUSY" /\ ~sink.wrote
    /\ sink.inflight[sink.iface] /\ sink.sem[sink.iface] = 0

\* C8: the configured flag is checked with the semaphore held, so a send
\* that writes was granted the semaphore with the flag set (also when the
\* status callback cleared the flag while it waited), and a send called
\* with valid arguments while the sink is unconfigured returns WouldBlock
\* (-EAGAIN) without writing
C8_ConfiguredCheckedUnderSemaphore ==
    /\ sink.wrote => sink.cfgAtTake
    /\ (sink.pc = "done" /\ ~sink.cfgAtEntry /\ sink.ret # "EINVAL") =>
            sink.ret = "EAGAIN" /\ ~sink.wrote

(***************************************************************************)
(* Properties of open (SpecOpen)                                           *)
(***************************************************************************)
\* C9: when open fails after the configuration-descriptor buffer was
\* allocated, the buffer has been freed exactly once (and nothing else was
\* freed) and every field of the device struct is zero
C9_FailureAfterAllocFreesOnce ==
    (enum.pc = "done" /\ enum.ret # "SUCCESS" /\ enum.allocated) =>
        /\ heap.state = "freed" /\ heap.frees = 1 /\ heap.wildFrees = 0
        /\ udev = ZeroDev

\* C10: open fails when a step of the enumeration sequence has failed, the
\* steps of the reset sequence included, and a failed open leaves the
\* struct reset: not connected, not configured, no interfaces, no buffer
C10_AnyStepFailureFailsOpen ==
    /\ (enum.pc = "done" /\ enum.stepFailed) => enum.ret # "SUCCESS"
    /\ (enum.pc = "done" /\ enum.ret # "SUCCESS") =>
            /\ ~udev.connected /\ ~udev.configured
            /\ udev.interface_count = 0 /\ udev.raw_conf_desc = "NULL"

(***************************************************************************)
(* Properties of the main loop (SpecMain)                                  *)
(***************************************************************************)
\* C11: once a report fetch has reported Disconnected during forwarding the
\* main loop is out of the forwarding loop (tearing down, waiting or
\* enumerating), and no report goes to the sink until both devices have
\* been enumerated again
C11_DisconnectStopsForwarding ==
    /\ app.discPending => app.pc # "fwd"
    /\ ~app.fwdAfterDisc

\* C12: no fetch is issued on the mouse channel while the report of the
\* last successful fetch has not been passed to the sink
C12_FetchedMouseReportIsSent ==
    ~app.dropped

(***************************************************************************)
(* Properties of the report buffer (SpecHid)                               *)
(***************************************************************************)
\* C13: a fetch that returns WouldBlock or any failure leaves the half
\* selector as it was before the fetch and every byte of the current report
\* as it was, and the current accessor (isLast = false) still returns the
\* last successfully fetched report.
C13_FailedFetchKeepsReport ==
    hid.ret \notin {"NONE", "SUCCESS"} =>
        /\ hid.last = hid.preLast
        /\ USBHID_getReportBuffer(hid, FALSE) = hid.preCur
        /\ hid.n >= 1 => USBHID_getReportBuffer(hid, FALSE) = hid.kth

\* a read failed midway after a success: bytes went into the other half
C13_Witness ==
    /\ hid.ret = "IO_ERROR"
    /\ hid.n >= 1
    /\ USBHID_getReportBuffer(hid, FALSE) = hid.kth
    /\ USBHID_getReportBuffer(hid, TRUE) # hid.kth
    /\ USBHID_getReportBuffer(hid, TRUE)[1] # 0

\* the two accessors address report_len bytes each inside the buffer and
\* the two ranges do not overlap
HalvesDisjoint ==
    LET a == get_report_buffer(hid, TRUE)
        b == get_report_buffer(hid, FALSE)
    IN  /\ a >= 0 /\ a + ReportLen <= 2 * ReportLen
        /\ b >= 0 /\ b + ReportLen <= 2 * ReportLen
        /\ (a + ReportLen <= b \/ b + ReportLen <= a)

\* C14 as stated: after k >= 1 successful fetches the accessor with
\* isLast = true returns the k-th report and the accessor with
\* isLast = false a half that does not overlap it.
C14_LastAccessorReturnsKth ==
    hid.open /\ hid.n >= 1 =>
        /\ USBHID_getReportBuffer(hid, TRUE) = hid.kth
        /\ HalvesDisjoint

\* C14 amended: after k >= 1 successful fetches the accessor with
\* isLast = false returns the k-th report and the accessor with
\* isLast = true returns the other half, which does not overlap it.
C14_CurrentAccessorReturnsKth ==
    hid.open /\ hid.n >= 1 =>
        /\ USBHID_getReportBuffer(hid, FALSE) = hid.kth
        /\ HalvesDisjoint

\* two successes: the newest report is in one half, the one before it,
\* with other bytes, in the half the isLast = true accessor returns
C14_Witness ==
    /\ hid.n = 2
    /\ hid.ret = "SUCCESS"
    /\ USBHID_getReportBuffer(hid, FALSE) = hid.kth
    /\ USBHID_getReportBuffer(hid, TRUE) # hid.kth
    /\ USBHID_getReportBuffer(hid, TRUE)[1] # 0

\* C15: for a mouse whose descriptor declares a Report-ID, report_id_offset
\* (and with it the shift of the field offsets) is the value decided on the
\* first successfully fetched report; no later fetch changes it.
C15_ReportIdOffsetDecidedOnce ==
    hid.declared /\ hid.n >= 1 =>
        /\ hid.idOff = hid.firstOff
        /\ hid.btnOff = hid.firstOff
        /\ hid.orientOff = 1 + hid.firstOff

(***************************************************************************)
(* Properties of the keyboard report editing (SpecKbd)                     *)
(***************************************************************************)
\* the six-slot array that lists held and then zeros
PadKeys(held) ==
    [i \in 1..HID_KBD_MAX_KEYS |-> IF i <= Len(held) THEN held[i] ELSE 0]

RECURSIVE PressAll(_, _)
PressAll(keys, codes) ==
    IF codes = <<>> THEN keys
    ELSE PressAll(SetKeyPress(keys, codes[1]), Tail(codes))

\* C16: under presses and releases of one-byte key codes the key array is
\* left-packed (no zero before a non-zero slot), holds no code twice and
\* lists the held keys in press order; a press that finds all six slots
\* taken changes nothing.  Pressing a..f gives [4,5,6,7,8,9], pressing g
\* then changes nothing, releasing b gives [4,6,7,8,9,0].
C16_KeyArrayPacked ==
    /\ \A l \in BOOLEAN :
           LET keys == KeysField(kbd, l)
           IN  /\ keys = PadKeys(kbd.held[l])
               /\ \A i \in 1..(HID_KBD_MAX_KEYS - 1) : keys[i] = 0 => keys[i + 1] = 0
               /\ \A i, j \in 1..HID_KBD_MAX_KEYS :
                      i # j /\ keys[i] # 0 => keys[i] # keys[j]
    /\ LET full == PressAll(PadKeys(<<>>), <<4, 5, 6, 7, 8, 9>>)
       IN  /\ full = <<4, 5, 6, 7, 8, 9>>
           /\ SetKeyPress(full, 10) = full
           /\ SetKeyRelease(full, 5) = <<4, 6, 7, 8, 9, 0>>

\* a seventh key was pressed while a..f were held
C16_Witness ==
    /\ kbd.ignored
    /\ KeysField(kbd, FALSE) = <<4, 5, 6, 7, 8, 9>>

\* C17: set_modifier(bit, v) with bit in 0..7 gives that bit of byte 0 the
\* value v and changes no other bit of byte 0 and no other byte of the
\* report buffer.
C17_SetModifierChangesOneBit ==
    [][LET modNum == kbd'.op.modNum
           value == kbd'.op.value
           l == kbd'.op.isLast
       IN kbd.open /\ kbd'.op.kind = "mod" /\ modNum \in 0..7 =>
              /\ BitOf(ModField(kbd', l), modNum) = value
              /\ \A n \in (0..7) \ {modNum} :
                     BitOf(ModField(kbd', l), n) = BitOf(ModField(kbd, l), n)
              /\ ModField(kbd', l) \in 0..255
              /\ \A i \in DOMAIN kbd.buf :
                     i # KbdHalf(kbd, l) + HID_KBD_MODIFIER_OFFSET + 1
                         => kbd'.buf[i] = kbd.buf[i]]_vars

\* RightGUI was set and LeftCtrl is clear while a key is held
C17_Witness ==
    /\ ModField(kbd, FALSE) = 128
    /\ KeysField(kbd, FALSE)[1] = 4

(***************************************************************************)
(* Properties of the recoil expansion (SpecRecoil).  round(n / d) is the   *)
(* nearest integer; where n / d lies exactly halfway between two integers  *)
(* the float arithmetic of the code decides between them, and both count.  *)
(***************************************************************************)
\* e is round(n / d), d > 0
IsRound(e, n, d) ==
    LET diff == 2 * (e * d - n)
    IN  diff <= d /\ -diff <= d

\* the sum of arr[lo..hi]
RECURSIVE SumRange(_, _, _)
SumRange(arr, lo, hi) ==
    IF lo > hi THEN 0 ELSE arr[lo] + SumRange(arr, lo + 1, hi)

\* the preset the arrays were generated from
RcData == sRecoilCollectArr[rc.pCollect].pData

RcN == sRecoilCollectArr[rc.pCollect].firerounds_sampling

\* the sum of the ticks of group g in arr
GroupTicks(arr, g) == SumRange(arr, (g - 1) * RcN + 1, g * RcN)

\* the sum of the ticks of groups 1..g in arr
RECURSIVE PrefixTicks(_, _)
PrefixTicks(arr, g) ==
    IF g = 0 THEN 0 ELSE GroupTicks(arr, g) + PrefixTicks(arr, g - 1)

\* the sum of column ch of the raw data of groups 1..g
RECURSIVE PrefixRaw(_, _)
PrefixRaw(ch, g) ==
    IF g = 0 THEN 0 ELSE RcData[g][ch] + PrefixRaw(ch, g - 1)

\* C18: whenever the arrays are allocated, the sum of all x ticks is
\* round(sum of raw_x * coefficient / sensitivity) over the whole preset with
\* the current coefficient and sensitivity; the y ticks, which the same loop
\* produces, sum to the rounded total of raw_y likewise.
C18_TotalIsRoundedTotal ==
    rc.allocated =>
        /\ Len(rc.pX) = rc.arrLen /\ Len(rc.pY) = rc.arrLen
        /\ rc.arrLen = RcN * Len(RcData)
        /\ IsRound(PrefixTicks(rc.pX, Len(RcData)),
                   PrefixRaw(1, Len(RcData)) * rc.coeff, rc.sens * RawScale)
        /\ IsRound(PrefixTicks(rc.pY, Len(RcData)),
                   PrefixRaw(2, Len(RcData)) * rc.coeff, rc.sens * RawScale)

\* the Cassidy arrays, regenerated after the sensitivity went down one step
C18_Witness ==
    /\ rc.allocated
    /\ rc.pCollect = 2
    /\ rc.sens = RECOIL_COMP_DEFAULT_SENS - 1
    /\ PrefixTicks(rc.pY, Len(RcData)) < 0

\* C19 as stated: after the expansion, for every group the x ticks of the
\* group sum to round(x_raw * coefficient / sensitivity) of the group, and
\* the y ticks to round(y_raw * coefficient / sensitivity).
C19_GroupIsRoundedGroup ==
    rc.allocated =>
        \A g \in 1..Len(RcData) :
            /\ IsRound(GroupTicks(rc.pX, g), RcData[g][1] * rc.coeff, rc.sens * RawScale)
            /\ IsRound(GroupTicks(rc.pY, g), RcData[g][2] * rc.coeff, rc.sens * RawScale)

\* C19 amended: after the expansion, for every group g the x ticks of the
\* groups up to and including g sum to round(sum of x_raw * coefficient /
\* sensitivity over those groups), and likewise the y ticks.
C19_PrefixIsRoundedPrefix ==
    rc.allocated =>
        \A g \in 1..Len(RcData) :
            /\ IsRound(PrefixTicks(rc.pX, g), PrefixRaw(1, g) * rc.coeff, rc.sens * RawScale)
            /\ IsRound(PrefixTicks(rc.pY, g), PrefixRaw(2, g) * rc.coeff, rc.sens * RawScale)

\* Soldier 76 at the defaults: the y ticks of the third group sum to 1,
\* those of the first three groups to 0
C19_Witness ==
    /\ rc.allocated
    /\ rc.pCollect = 1
    /\ rc.coeff = RECOIL_COMP_DEFAULT_COEFF /\ rc.sens = RECOIL_COMP_DEFAULT_SENS
    /\ GroupTicks(rc.pY, 3) = 1
    /\ PrefixTicks(rc.pY, 3) = 0

\* C20 as stated: after the expansion, for every group the t ticks of the
\* group sum to round(t_raw * coefficient / sensitivity).
C20_TimeIsScaled ==
    rc.allocated =>
        \A g \in 1..Len(RcData) :
            IsRound(GroupTicks(rc.pTs, g), RcData[g][3] * rc.coeff, rc.sens)

\* C20 amended: after the expansion, for every group the t ticks of the
\* group sum to round(t_raw): the time component is not scaled by
\* coefficient / sensitivity.
C20_TimeIsNotScaled ==
    rc.allocated =>
        /\ Len(rc.pTs) = rc.arrLen
        /\ \A g \in 1..Len(RcData) :
               IsRound(GroupTicks(rc.pTs, g), RcData[g][3], 1)

\* coefficient and sensitivity differ and a Cassidy group of 150 ms is there
C20_Witness ==
    /\ rc.allocated
    /\ rc.pCollect = 2
    /\ rc.coeff # rc.sens
    /\ GroupTicks(rc.pTs, 2) = 150

(***************************************************************************)
(* Properties of the item walker (SpecItem)                                *)
(***************************************************************************)
\* C21: fetch_item applied repeatedly from the start of a buffer never
\* returns a cursor past the end, never reads a byte at or past the end,
\* advances the cursor by at least one byte with every item it returns (so
\* at most Len(buf) items are returned), and ends either with the cursor
\* exactly at the end or with None.
C21_WalkStaysInBuffer ==
    fn.kind = "item" =>
        /\ fn.cur >= 0 /\ fn.cur <= Len(fn.buf)
        /\ fn.hi <= Len(fn.buf)
        /\ fn.adv >= 1
        /\ fn.items <= Len(fn.buf)
        /\ fn.items > 0 => fn.cur > 0
        /\ fn.done => HID_fetchItem(fn.buf, fn.cur).next = -1

\* a walk fetched a long item and then met a 4-byte item cut short
C21_Witness ==
    /\ fn.kind = "item"
    /\ fn.done
    /\ fn.items >= 1
    /\ fn.buf[1] = 254
    /\ fn.cur < Len(fn.buf)
    /\ fn.buf[fn.cur + 1] = 3

(***************************************************************************)
(* Properties of the descriptor walk (SpecOpen)                            *)
(***************************************************************************)
\* C22: after the walk of a configuration descriptor, interface_count is at
\* most 4, every endpoint_count is at most 4, and nothing was stored outside
\* the 4-entry interface and endpoint tables (no field in front of the
\* interface table was overwritten).
C22_WalkStaysInTables ==
    /\ udev.interface_count <= 4
    /\ \A i \in 0..3 : udev.interfaces[i].endpoint_count <= 4
    /\ udev.raw_conf_desc # "wild"
    /\ udev.raw_dev_desc # "clobbered"

\* C23: after a successful open, every endpoint entry the walk has built
\* (every entry below its interface's endpoint_count) has max_packet > 0.
C23_BuiltEndpointsHaveMaxPacket ==
    (enum.ret = "SUCCESS" /\ udev.connected) =>
        \A i \in 0..3 : \A j \in 0..3 :
            (i < udev.interface_count /\ j < udev.interfaces[i].endpoint_count)
                => udev.interfaces[i].endpoints[j].max_packet > 0

(***************************************************************************)
(* Properties of the main loop's resources (SpecMain)                      *)
(***************************************************************************)
\* C24: across connect, enumeration failure, pattern-init failure,
\* sink-init failure, retry, disconnect and close, no heap buffer of a
\* channel (configuration descriptor, HID report descriptor, report buffer)
\* becomes unreachable without having been freed.
C24_NoBufferLeaked ==
    ~app.leaked

\* the variables a step of the forwarding loop has changed
Changed == {v \in ProgVars : app'[v] # app[v]}

\* the recoil-compensation state the keyboard's hotkeys set for the mouse
RecoilControl == {"gRcEnabled"}

C26_Completion ==
    {"IntSuccess", "IntConnect", "IntDisconnect", "IntUsbReady",
     "Nak", "Stall", "Ack"}

\* C26: wait_int returns ok after a single status read when the first read
\* is a completion status, returns ok as soon as a later poll reads one (the
\* completion status is the last read made and the only one), and returns
\* Timeout when no read made before the budget had elapsed was a completion
\* status; it returns nothing else.
C26_WaitIntReturns ==
    (fn.kind = "wait" /\ fn.pc = "done") =>
        /\ fn.ret \in {"SUCCESS", "TIMEOUT"}
        /\ fn.log[1] \in C26_Completion => (fn.ret = "SUCCESS" /\ Len(fn.log) = 1)
        /\ (\E k \in 1..Len(fn.log) : fn.log[k] \in C26_Completion)
              => /\ fn.ret = "SUCCESS"
                 /\ fn.log[Len(fn.log)] \in C26_Completion
                 /\ \A k \in 1..(Len(fn.log) - 1) : fn.log[k] \notin C26_Completion
                 /\ fn.late = "none"
        /\ (\A k \in 1..Len(fn.log) : fn.log[k] \notin C26_Completion)
              => /\ fn.ret = "TIMEOUT"
                 /\ fn.elapsed >= fn.timeout_ms

\* a wait that read a failed link and a non-completion status, then NAK on
\* a later poll, and returned ok
C26_Witness ==
    /\ fn.kind = "wait" /\ fn.pc = "done"
    /\ fn.ret = "SUCCESS"
    /\ Len(fn.log) = 3
    /\ fn.log[1] = "fail"
    /\ fn.log[2] = "IntBufOver"
    /\ fn.log[3] = "Nak"

(***************************************************************************)
(* Properties of set_baud (SpecBaud)                                       *)
(***************************************************************************)
\* the baud rates of the Dialect-A table
C27_Table == {9600, 19200, 57600, 115200, 460800, 921600, 1000000, 2000000}

\* C27: for each baud rate of the table, a set_baud that returns ok has sent
\* one SET_BAUD command and after it exactly the two divisor bytes of that
\* rate's own table entry.
C27_SendsOwnEntry ==
    (fn.kind = "baud" /\ fn.pc = "done" /\ fn.ret = "SUCCESS"
        /\ fn.baudrate \in C27_Table)
        => (fn.cmds = 1 /\ fn.sent = BaudEntry(fn.baudrate))

(***************************************************************************)
(* Properties of the normalized mouse report (SpecOut)                     *)
(***************************************************************************)
\* the int16 a host reads from two little-endian bytes
AsInt16(lo, hi) ==
    IF hi >= 128 THEN lo + 256 * hi - 65536 ELSE lo + 256 * hi

Saturate16(v) ==
    IF v > 32767 THEN 32767 ELSE IF v < -32768 THEN -32768 ELSE v

\* C28: in the 6-byte normalized report, X (bytes 1-2) and Y (bytes 3-4) are
\* the source axis values saturated to the int16 range.
C28_AxesSaturate ==
    (fn.kind = "out" /\ fn.ret = "OK") =>
        /\ Len(fn.report) = 6
        /\ AsInt16(fn.report[2], fn.report[3]) = Saturate16(fn.x)
        /\ AsInt16(fn.report[4], fn.report[5]) = Saturate16(fn.y)

(***************************************************************************)
(* Properties of the endpoint toggles (SpecXfer)                           *)
(***************************************************************************)
\* the endpoint entries of the enumerated device
C29_Slots == {s \in (0..3) \X (0..3) : s[1] < udev.interface_count
                                       /\ s[2] < udev.interfaces[s[1]].endpoint_count}

\* this step is an iteration of the bulk/interrupt loop on s whose token
\* completed with IntSuccess and whose packet was taken
C29_BulkPacket(s) ==
    bk.pc = "loop" /\ bk.slot = s /\ bk'.tokens = bk.tokens + 1
        /\ bk'.pkts = bk.pkts + 1

\* this step is a report fetch on s whose token completed with IntSuccess
C29_FetchPacket(s) ==
    fn = FnIdle /\ fn'.kind = "read" /\ fn'.slot = s
        /\ fn'.status = "IntSuccess" /\ fn'.ret = "SUCCESS"

\* this step is the end of a successful clear_stall on s
C29_ClearStallOk(s) ==
    cs.pc = "wait" /\ cs.slot = s /\ cs'.pc = "done" /\ cs'.ret = "SUCCESS"

\* C29: an endpoint's data_toggle changes only in a bulk/interrupt transfer
\* or a report fetch, directly after a token for that endpoint completed
\* with IntSuccess, and then by exactly one flip for that packet, or at the
\* end of a successful clear_stall, which leaves DATA0; a step that ends with
\* NAK, STALL, disconnect, timeout or any other failure leaves it as it was.
C29_ToggleChangesOnlyOnAck ==
    [][\A s \in C29_Slots :
          LET before == EpAt(udev, s).data_toggle
              after == EpAt(udev', s).data_toggle
          IN  /\ after # before
                    => \/ C29_BulkPacket(s)
                       \/ C29_FetchPacket(s)
                       \/ C29_ClearStallOk(s) /\ ~after
              /\ (C29_BulkPacket(s) \/ C29_FetchPacket(s)) => after = ~before
              /\ (fn = FnIdle /\ fn'.kind = "read" /\ fn'.ret # "SUCCESS")
                    => after = before
              /\ (bk.pc = "loop" /\ bk'.pc = "done" /\ bk'.ret # "SUCCESS")
                    => after = before]_vars

\* a report fetch has flipped the toggle of the interrupt IN endpoint to
\* DATA1 while the OUT endpoint's toggle stayed DATA0
C29_Witness ==
    /\ fn.kind = "read"
    /\ fn.status = "IntSuccess"
    /\ fn.ret = "SUCCESS"
    /\ EpAt(udev, fn.slot).data_toggle
    /\ ~EpAt(udev, GetEndpoint(udev, 1)).data_toggle

(***************************************************************************)
(* Properties of the STATUS stage (SpecXfer)                               *)
(***************************************************************************)
\* C30: when the DATA stage of a control transfer was IN and put at least
\* one byte into the caller's buffer, any failure of the STATUS stage is
\* reported as Success with the partial count; when no data byte was
\* delivered, or the data direction is OUT, a failure of the STATUS stage
\* makes the whole transfer fail.
C30_StatusFailureTolerance ==
    (ct.pc = "done" /\ ct.stat \notin {"none", "IntSuccess"}) =>
        IF ct.dirIn /\ ct.total > 0
        THEN ct.ret = "SUCCESS" /\ ct.actual = ct.total
        ELSE ct.ret # "SUCCESS" /\ ct.actual = -1

\* an IN transfer that received data and whose STATUS stage was answered
\* with STALL has returned Success with the bytes received
C30_Witness ==
    /\ ct.pc = "done"
    /\ ct.dirIn
    /\ ct.stat = "Stall"
    /\ ct.total > 0
    /\ ct.total < ct.wLength
    /\ ct.ret = "SUCCESS"
    /\ ct.actual = ct.total

(***************************************************************************)
(* Properties of the enumeration order (SpecOpen)                          *)
(***************************************************************************)
\* the steps of spec section 4.4 in their order: reset sequence, the two
\* device-descriptor reads with the EP0 size taken in between, SET_ADDRESS
\* and the chip's address, the two configuration-descriptor reads, the
\* descriptor walk, SET_CONFIGURATION
C31_Order ==
    <<"reset", "dev8", "ep0", "dev18", "addr", "chipaddr", "conf9",
      "conffull", "walk", "setconf">>

\* wLength of the six control transfers, in order
C31_Lens == <<8, 18, 0, 9, enum.conf_total_len, 0>>

\* C31: a successful open has issued the enumeration steps in the order of
\* C31_Order, each only after the one before it succeeded, the first
\* GET_DESCRIPTOR with length 8 and ep0_max_packet 8, the last
\* GET_DESCRIPTOR(CONFIGURATION) with the wTotalLength read by the one
\* before it
C31_OpenStepsInOrder ==
    /\ \E n \in 0..Len(C31_Order) : enum.log = SubSeq(C31_Order, 1, n)
    /\ \E n \in 0..Len(C31_Lens) : enum.lens = SubSeq(C31_Lens, 1, n)
    /\ enum.lens # <<>> => enum.ep0First = USB_DEFAULT_EP0_MAX_PACKSIZE
    /\ (enum.pc = "done" /\ enum.ret = "SUCCESS") =>
            /\ enum.log = C31_Order
            /\ Len(enum.okLog) = Len(enum.log)
            /\ \A i \in 1..Len(enum.okLog) : enum.okLog[i]

(***************************************************************************)
(* Properties of the byte-level descriptor walk (SpecWalk)                 *)
(***************************************************************************)
\* the items of a buffer, read from offset p on, hold one with bLength 0 or
\* one that extends past the end of the buffer
RECURSIVE C32_Malformed(_, _)
C32_Malformed(buf, p) ==
    IF p >= Len(buf) THEN FALSE
    ELSE IF buf[p + 1] = 0 THEN TRUE
    ELSE IF p + buf[p + 1] > Len(buf) THEN TRUE
    ELSE C32_Malformed(buf, p + buf[p + 1])

\* C32: the walk of a configuration descriptor ends after at most one
\* pass of the loop per byte for every buffer, returns an error exactly when
\* the buffer holds an item with bLength 0 or an item that extends past the
\* end of the buffer, and an item of a type other than INTERFACE and
\* ENDPOINT leaves the interface and endpoint tables as they were
C32_WalkFailsExactlyOnMalformed ==
    fn.kind = "walk" =>
        /\ fn.steps <= Len(fn.buf) + 1
        /\ fn.pos <= Len(fn.buf)
        /\ fn.pc = "done" => (fn.ret = "ERROR" <=> C32_Malformed(fn.buf, 0))
        /\ ~fn.unk

(***************************************************************************)
(* Properties of the recoil sequencer (SpecSeq)                            *)
(***************************************************************************)
\* next(now) has nothing to return: the sequencer is uninitialized, has no
\* arrays, is at the end of them, or the pending tick is not due yet
C33_Blocked(now) ==
    \/ ~rc.init
    \/ ~rc.allocated
    \/ rc.arrIndex >= rc.arrLen
    \/ now - rc.lastTickMs < rc.pTs[rc.arrIndex + 1]

\* a call of next(now) with now the clock reading it took
C33_Call(now) ==
    IF C33_Blocked(now)
    THEN /\ fn'.out # "OK"
         /\ rc' = rc
    ELSE /\ fn'.out = "OK"
         /\ fn'.x = rc.pX[rc.arrIndex + 1]
         /\ fn'.y = 0 - rc.pY[rc.arrIndex + 1]
         /\ rc' = [rc EXCEPT !.lastTickMs = @ + rc.pTs[rc.arrIndex + 1],
                             !.arrIndex = @ + 1]

C34_MutexFreeAfterOperations ==
    \A t \in Threads : ~Running(t) => mtx.owner # t

(***************************************************************************)
(* Properties of the bulk transfer loop (SpecXfer)                         *)
(***************************************************************************)
\* C35: every pass of the loop of a bulk/interrupt transfer that does not
\* return moves at least one byte (the residue goes down) or uses up one
\* unit of the NAK timeout, so a transfer with a finite timeout returns;
\* this includes IN tokens answered with a zero-length packet and endpoints
\* whose max_packet is 0
C35_BulkIterationProgresses ==
    [][(bk.pc = "loop" /\ bk'.pc = "loop") =>
           \/ bk'.resiLen < bk.resiLen
           \/ bk'.timeout < bk.timeout]_vars

(***************************************************************************)
(* Properties of the control transfer's timeout (SpecXfer)                 *)
(***************************************************************************)
\* C36: a control transfer honours its timeout argument: the NAK answers it
\* rides out in the IN data stage are bounded by that argument (one NAK per
\* unit of timeout, the budget a bulk transfer keeps), so the call returns
\* even when the device answers every data-stage IN token with NAK
C36_ControlHonoursTimeout ==
    ct.caller # "none" => ct.naks <= ct.timeout

(***************************************************************************)
(* Properties of the endpoint store of the walk (SpecWalk)                 *)
(***************************************************************************)
\* C37: a pass of the walk that dispatches an ENDPOINT descriptor stores it
\* into an interface slot that already exists: interface_count is at least 1
\* at that point (slot interface_count - 1 is not below the table), and the
\* fields in front of the interface table are left as they were
C37_EndpointStoredInExistingSlot ==
    [][(/\ fn.kind = "walk" /\ fn.pc = "loop"
        /\ fn'.pos > fn.pos
        /\ DescType(fn.buf[fn.pos + 2]) = "ENDPOINT") =>
           /\ udev.interface_count >= 1
           /\ udev'.raw_conf_desc = udev.raw_conf_desc
           /\ udev'.raw_dev_desc = udev.raw_dev_desc]_vars

(***************************************************************************)
(* Properties of the per-packet length of a control transfer (SpecXfer)    *)
(***************************************************************************)
\* C38: the length a control transfer hands to the block read or block write
\* of one packet is the true remaining length wLength - total: an accepted
\* IN packet adds what the device delivered, up to all that remains, and an
\* acknowledged OUT packet adds the remaining length capped by the EP0
\* packet size; a remaining length of 256 or more is not taken modulo 256
C38_PacketLengthFromTrueRemaining ==
    [][ct.pc = "data" =>
          LET remaining == ct.wLength - ct.total
          IN  /\ (ct.dirIn /\ Len(ct'.acc) = Len(ct.acc) + 1) =>
                     ct'.total - ct.total =
                         Min(ct'.acc[Len(ct'.acc)], remaining)
              /\ (~ct.dirIn /\ ct'.accOdd # ct.accOdd) =>
                     ct'.total - ct.total =
                         Min(remaining, udev.ep0_max_packet)]_vars

(***************************************************************************)
(* Properties of the compensated mouse report (SpecMain)                   *)
(***************************************************************************)
\* C39: every mouse report that goes to the sink carries the X the device
\* reported in one fetched report plus at most one compensation tick: a
\* report whose axes were already compensated is not compensated again and
\* sent again when a later fetch brings nothing new
C39_SentReportHasOneTickAtMost ==
    /\ app.sent.ticks <= 1
    /\ app.sent.x \in {app.sent.devX} \cup {app.sent.devX + c : c \in CompXs}

(***************************************************************************)
(* Properties of a failed send (SpecSink)                                  *)
(***************************************************************************)
\* C40: a send whose endpoint write fails after it took the semaphore has
\* given the semaphore back when it returns; an endpoint's semaphore is
\* taken only while a send is about to write on it or a write is in flight
\* there, so no failed send leaves it Busy for good; and through every
\* sequence of sends, ready callbacks and cleanups the count is 0 or 1
C40_FailedSendGivesSemaphoreBack ==
    /\ (sink.pc = "done" /\ sink.wrote /\ sink.ret # "OK") =>
            sink.sem[sink.iface] = 1
    /\ \A i \in Ifaces :
          /\ sink.sem[i] \in {0, 1}
          /\ sink.sem[i] = 0 =>
                 \/ sink.inflight[i]
                 \/ sink.pc = "write" /\ sink.iface = i

\* a send has come back with the write's error and its semaphore available
C40_Witness ==
    /\ sink.pc = "done" /\ sink.wrote /\ sink.ret = "EIO"
    /\ sink.sem[sink.iface] = 1
    /\ ~sink.inflight[sink.iface]

====
